---- MODULE Spec2Model ----
(***************************************************************************)
(* Model of the package-request path of justuse (src/use): the decision    *)
(* table buffet_table, Use._use_package, and the installer _auto_install    *)
(* with _download_artifact, _install, _load_venv_entry and the sqlite       *)
(* registry written by _save_package_info.                                  *)
(*                                                                          *)
(* One foreground request runs at a time.  The registry, the downloaded     *)
(* artifacts and the isolated install directories persist between requests. *)
(* Network replies, the package manager and imports are environment         *)
(* choices.                                                                 *)
(***************************************************************************)
EXTENDS Integers, Sequences, FiniteSets, TLC

\* ------------------------------------------------------------------ bounds
\* largest number of hashes a request passes
MaxHashes == 2

\* ------------------------------------------------------------ the universe
PkgName == "pkgX"
Versions == {"1.0", "2.0"}

\* Hash strings as the user may type them (hexadecimal, any case, blanks).
UserHashStrings ==
    { <<"a">>, <<"0", "A">>, <<"1", " ", "1">>, <<"f", "f">> }

\* The release list the index publishes for each version: filename (last
\* segment of the url), the published hex digest and the yanked flag.
Catalog ==
    [v \in Versions |->
        IF v = "1.0"
        THEN << [id |-> 1, filename |-> "pkgX-1.0-cp-a.whl", digest |-> <<"0", "a">>,
                 yanked |-> FALSE],
                [id |-> 2, filename |-> "pkgX-1.0-cp-b.whl", digest |-> <<"1", "1">>,
                 yanked |-> TRUE] >>
        ELSE << [id |-> 3, filename |-> "pkgX-2.0-py3.whl",  digest |-> <<"a">>,
                 yanked |-> FALSE] >>]

ReleaseIds == {1, 2, 3}
Filenames == {"pkgX-1.0-cp-a.whl", "pkgX-1.0-cp-b.whl", "pkgX-2.0-py3.whl"}

ReleaseById(i) ==
    CHOOSE R \in UNION {{Catalog[v][k] : k \in 1..Len(Catalog[v])} : v \in Versions} :
        R.id = i

\* ------------------------------------------------- hash text -> integer
IsBlank(c) == c = " "

\* "".join(H.split())
RECURSIVE StripBlanks(_)
StripBlanks(s) ==
    IF s = << >> THEN << >>
    ELSE IF IsBlank(Head(s)) THEN StripBlanks(Tail(s))
         ELSE <<Head(s)>> \o StripBlanks(Tail(s))

HexDigit(c) ==
    CASE c = "0" -> 0 [] c = "1" -> 1
      [] c = "a" -> 10 [] c = "A" -> 10
      [] c = "b" -> 11 [] c = "B" -> 11
      [] c = "f" -> 15 [] c = "F" -> 15

\* int(H, 16)
RECURSIVE HexAcc(_, _)
HexAcc(s, acc) ==
    IF s = << >> THEN acc ELSE HexAcc(Tail(s), acc * 16 + HexDigit(Head(s)))

IntHex(s) == HexAcc(s, 0)

\* Use._use_package: the hashes argument (None, one string, or a collection
\* of strings) becomes a set of integers.
NormalizeHashes(arg) ==
    LET listed == IF arg.kind = "str" THEN {StripBlanks(arg.s)}
                  ELSE IF arg.kind = "set" THEN arg.hs
                  ELSE {}
    IN  {IntHex(StripBlanks(h)) : h \in listed}

HashArgs ==
    {[kind |-> "none", s |-> << >>, hs |-> {}]}
    \cup {[kind |-> "str", s |-> h, hs |-> {}] : h \in UserHashStrings}
    \cup {[kind |-> "set", s |-> << >>, hs |-> S] :
            S \in {T \in SUBSET UserHashStrings : Cardinality(T) \in 1..MaxHashes}}

\* --------------------------------------------------------- decision table
Wild == -1

\* variant: the second case also taken when auto-install was not requested
BuffetPatterns_AutoNotRequired ==
    << <<1, 1, 1, 1>>,
       <<1, 1, 0, Wild>>,
       <<1, Wild, 1, 0>>,
       <<0, 0, Wild, 1>>,
       <<1, 0, Wild, 1>>,
       <<0, 1, Wild, 1>>,
       <<0, Wild, 1, 0>>,
       <<Wild, Wild, 0, 0>> >>

\* buffet_table: the case patterns in the order of the match statement
BuffetPatterns ==
    << <<1, 1, 1, 1>>,
       <<1, 1, 0, 1>>,
       <<1, Wild, 1, 0>>,
       <<0, 0, Wild, 1>>,
       <<1, 0, Wild, 1>>,
       <<0, 1, Wild, 1>>,
       <<0, Wild, 1, 0>>,
       <<Wild, Wild, 0, 0>> >>

\* buffet_table: what each case returns, as the calls of its pipeline
BuffetPipeline ==
    << <<"_import_public_no_install", "_ensure_version", "_auto_install">>,
       <<"_auto_install">>,
       <<"_import_public_no_install", "_ensure_version">>,
       <<"_pebkac_no_version_no_hash">>,
       <<"_pebkac_no_hash">>,
       <<"_pebkac_no_version">>,
       <<"_import_public_no_install">>,
       <<"cant_import">> >>

PatternMatches(pat, case) ==
    \A i \in 1..4 : pat[i] = Wild \/ pat[i] = case[i]

MatchingRows(case) ==
    {r \in 1..Len(BuffetPatterns) : PatternMatches(BuffetPatterns[r], case)}

\* the match statement takes the first matching case; 0 = no case matched
BuffetRow(case) ==
    IF MatchingRows(case) = {} THEN 0
    ELSE CHOOSE r \in MatchingRows(case) : \A q \in MatchingRows(case) : r <= q

B2I(b) == IF b THEN 1 ELSE 0

\* ------------------------------------------------------ keyword arguments
\* the keys of the kwargs dict Use._use_package builds
UsePackageKwargs ==
    {"name", "package_name", "module_name", "version", "user_provided_hashes",
     "hash_algo", "spec", "fastfail", "no_public_installation",
     "fatal_exceptions", "sys_version", "no_browser", "Message", "registry",
     "cleanup"}

\* a kwargs dict that carries every keyword the callees of buffet_table declare
CalleeKwargs ==
    {"name", "pkg_name", "mod_name", "req_ver", "requested_version",
     "user_provided_hashes", "hash_algo", "spec", "no_browser", "Message",
     "registry", "cleanup"}

\* the keyword-only parameters without default of each callee
RequiredKeywords(f) ==
    CASE f = "_import_public_no_install" -> {"mod_name"}
      [] f = "_ensure_version" -> {"name", "requested_version"}
      [] f = "_auto_install" ->
            {"pkg_name", "mod_name", "req_ver", "hash_algo",
             "user_provided_hashes", "registry", "cleanup"}
      [] f = "_pebkac_no_version_no_hash" ->
            {"name", "pkg_name", "no_browser", "Message"}
      [] f = "_pebkac_no_hash" ->
            {"name", "req_ver", "pkg_name", "no_browser", "Message", "hash_algo"}
      [] f = "_pebkac_no_version" -> {"name", "Message"}
      [] f = "cant_import" -> {"pkg_name"}
      [] f = "_build_mod" -> {"mod_name", "code", "initial_globals", "module_path"}

Binds(f, kwargs) == RequiredKeywords(f) \subseteq kwargs


\* ----------------------------------------------------------------- registry
\* Use._set_up_registry: the three tables and the AUTOINCREMENT counters of
\* "distributions" and "artifacts"
EmptyRegistry ==
    [dists |-> {}, arts |-> {}, hashes |-> {}, seqD |-> 0, seqA |-> 0]

NoEntry ==
    [present |-> FALSE, artifact_path |-> "", installation_path |-> "",
     pure_python_package |-> FALSE]

\* variant: the version column is compared with the name parameter
CheckDbForInstallation_VersionNeverEqual(reg, name, version) ==
    LET rows == {da \in reg.dists \X reg.arts :
                    /\ da[2].id = da[1].id
                    /\ da[1].name = name
                    /\ da[1].version = name}
    IN  IF rows = {} THEN NoEntry
        ELSE LET top == CHOOSE da \in rows : \A o \in rows : o[2].id <= da[2].id
             IN  [present |-> TRUE,
                  artifact_path |-> top[2].artifact_path,
                  installation_path |-> top[1].installation_path,
                  pure_python_package |-> top[1].pure_python_package]

\* _check_db_for_installation: distributions JOIN artifacts ON artifacts.id =
\* distributions.id WHERE name, version ORDER BY artifacts.id DESC, first row
CheckDbForInstallation(reg, name, version) ==
    LET rows == {da \in reg.dists \X reg.arts :
                    /\ da[2].id = da[1].id
                    /\ da[1].name = name
                    /\ da[1].version = version}
    IN  IF rows = {} THEN NoEntry
        ELSE LET top == CHOOSE da \in rows : \A o \in rows : o[2].id <= da[2].id
             IN  [present |-> TRUE,
                  artifact_path |-> top[2].artifact_path,
                  installation_path |-> top[1].installation_path,
                  pure_python_package |-> top[1].pure_python_package]

\* variant: the rows are inserted without the SELECT that looks for a
\* distribution row of (name, version)
SavePackageInfo_NoSelect(reg, name, version, artifact_path, installation_path, hash_value) ==
    LET did == reg.seqD + 1
        aid == reg.seqA + 1
        hashTaken == \E h \in reg.hashes : h.algo = "sha256" /\ h.value = hash_value
    IN  [dists |-> reg.dists \cup
               {[id |-> did, name |-> name, version |-> version,
                 installation_path |-> installation_path,
                 pure_python_package |-> FALSE]},
         arts |-> reg.arts \cup
               {[id |-> aid, distribution_id |-> did,
                 artifact_path |-> artifact_path]},
         hashes |-> IF hashTaken THEN reg.hashes
                    ELSE reg.hashes \cup
                         {[algo |-> "sha256", value |-> hash_value,
                           artifact_id |-> aid]},
         seqD |-> did, seqA |-> aid]

\* _save_package_info: three inserts and one commit, all skipped when a
\* distribution row for (name, version) exists
SavePackageInfo(reg, name, version, artifact_path, installation_path, hash_value) ==
    IF \E d \in reg.dists : d.name = name /\ d.version = version
    THEN reg
    ELSE LET did == reg.seqD + 1
             aid == reg.seqA + 1
             hashTaken == \E h \in reg.hashes : h.algo = "sha256" /\ h.value = hash_value
         IN  [dists |-> reg.dists \cup
                    {[id |-> did, name |-> name, version |-> version,
                      installation_path |-> installation_path,
                      pure_python_package |-> FALSE]},
              arts |-> reg.arts \cup
                    {[id |-> aid, distribution_id |-> did,
                      artifact_path |-> artifact_path]},
              hashes |-> IF hashTaken THEN reg.hashes
                         ELSE reg.hashes \cup
                              {[algo |-> "sha256", value |-> hash_value,
                                artifact_id |-> aid]},
              seqD |-> did, seqA |-> aid]

\* ------------------------------------------------------------- file system
Absent == "absent"
Corrupt == "corrupt"
\* what a file under config.packages holds: nothing, the bytes of a release,
\* or bytes that are not those of any release
Contents == {Absent, Corrupt} \cup {"release1", "release2", "release3"}

GenuineContent(id) ==
    CASE id = 1 -> "release1" [] id = 2 -> "release2" [] id = 3 -> "release3"

\* int(hash_algo.value(bytes).hexdigest(), 16)
DigestOf(content) ==
    CASE content = "release1" -> IntHex(ReleaseById(1).digest)
      [] content = "release2" -> IntHex(ReleaseById(2).digest)
      [] content = "release3" -> IntHex(ReleaseById(3).digest)
      [] OTHER -> 0

\* ------------------------------------------------------------------- state
VARIABLES
    registry,   \* the sqlite registry (committed state)
    files,      \* config.packages: filename -> content
    venv,       \* config.venv / pkg / version: [root, site] directories exist
    using,      \* Use._using[name]: "absent", "spec" or "nospec"
    req,        \* the request in progress
    pc,         \* where the request is
    stage,      \* position in the pipeline of the matched case
    mod,        \* value handed from one pipeline call to the next
    remaining,  \* _auto_install: hashes the for loop has not yet visited
    H,          \* _auto_install: loop variable
    url,        \* _auto_install: release id of the selected url, 0 = None
    entry,      \* _auto_install: local variable entry
    releases,   \* _auto_install: local variable releases
    result,     \* what the request gave back
    dl,         \* record of the last _download_artifact call
    log,        \* events of the request in progress, in order
    saved,      \* registry calls: per version, the pair last inserted and not deleted
    op,         \* registry calls: the last call made
    pre,        \* compatibility check: the old unit
    post,       \* compatibility check: the new unit
    verdict,    \* compatibility check: what the last call gave
    source,     \* reloading: content of the watched file
    impl,       \* ProxyModule.__implementation
    reloader,   \* the ModuleReloader and its thread or task
    seen,       \* reloading: unit that served the last foreground access
    lock,       \* ProxyModule.__condition (RLock): owner and count
    acc,        \* proxy access in progress
    attr,       \* proxy access: the attribute value each unit holds
    worker,     \* proxy access: where the thread of run_threaded is
    rcond,      \* ModuleReloader._condition (RLock): owner and count
    feed,       \* release catalog: which index reply the releases were built from
    given,      \* release catalog: argument of the last call
    out,        \* release catalog: the list fetched, or what the last call returned
    cop,        \* release catalog: the last call
    sys_path,   \* module search: sys.path
    cwd,        \* module search: the working directory
    pcall,      \* module search: the last call and what it found on entry
    fetch       \* index requests: the last call, the replies and what it gave

\* the package-request state, and the state of the other parts of the library
pkgVars == <<registry, files, venv, using, req, pc, stage, mod, remaining, H,
             url, entry, releases, result, dl, log>>
regVars == <<saved, op>>
cmpVars == <<pre, post, verdict>>
rlVars == <<source, reloader, seen>>
pxVars == <<lock, acc, attr, worker, rcond>>
catVars == <<feed, given, out, cop>>
impVars == <<sys_path, cwd, pcall>>
idxVars == <<fetch>>
aside == <<regVars, cmpVars, impl, rlVars, pxVars, catVars, impVars, idxVars>>

vars == <<pkgVars, aside>>

\* the default argument of use(): the sentinel Modes.fastfail or a value
Defaults == {"fastfail", "value"}

NoRequest ==
    [caller |-> "", version |-> "None", hashes |-> {}, case |-> <<0, 0, 0, 0>>,
     row |-> 0, kwargs |-> {}, cleanup |-> FALSE, default |-> "fastfail",
     hadDist |-> FALSE, given |-> {}, before |-> <<>>]

NoResult == [kind |-> "none", exc |-> "", from |-> ""]
NoDownload == [pre |-> FALSE, gets |-> 0, first |-> Absent, second |-> Absent,
               final |-> Absent, hash_value |-> 0]

PkgInit ==
    /\ registry = EmptyRegistry
    /\ files = [f \in Filenames |-> Absent]
    /\ venv = [v \in Versions |-> [root |-> FALSE, site |-> FALSE]]
    /\ using = "absent"
    /\ req = NoRequest
    /\ pc = "idle"
    /\ stage = 0
    /\ mod = "None"
    /\ remaining = {}
    /\ H = 0
    /\ url = 0
    /\ entry = NoEntry
    /\ releases = << >>
    /\ result = NoResult
    /\ dl = NoDownload
    /\ log = << >>

NoSaved == [present |-> FALSE, artifact_path |-> "", installation_path |-> ""]
NoHash == [algo |-> "None", of |-> ""]
NoReloader ==
    [stopped |-> TRUE, stopCalled |-> FALSE, thread |-> 0, loaded |-> "",
     workers |-> << >>]
NoLock == [owner |-> "", count |-> 0]
NoAccess ==
    [at |-> "idle", op |-> "", unit |-> 0, part1 |-> 0, part2 |-> 0, depth |-> 0]
Accessors == {"fg1", "fg2"}

\* the other parts of the library before they are used: no direct registry
\* call, no compatibility check, no reloader, no proxy
RegIdle == saved = [v \in Versions |-> NoSaved] /\ op = "none"
CmpIdle == pre = << >> /\ post = << >> /\ verdict = "none"
RlIdle == source = "" /\ reloader = NoReloader /\ seen = << >>
PxIdle ==
    /\ lock = NoLock /\ acc = [t \in Accessors |-> NoAccess] /\ attr = << >>
    /\ worker = "idle" /\ rcond = NoLock
CatIdle == feed = "" /\ given = << >> /\ out = << >> /\ cop = "none"
NoCall == [fn |-> "", outcome |-> "", sys_path |-> << >>, cwd |-> ""]
ImpIdle == sys_path = << >> /\ cwd = "" /\ pcall = NoCall
NoFetch == [fn |-> "", pkg_name |-> "", req_ver |-> "", replies |-> << >>,
            gets |-> 0, kind |-> "", exc |-> "", message |-> ""]
IdxIdle == fetch = NoFetch
AsideInit == RegIdle /\ CmpIdle /\ impl = << >> /\ RlIdle /\ PxIdle /\ CatIdle /\ ImpIdle /\ IdxIdle

Init == PkgInit /\ AsideInit

Locals == <<remaining, H, url, entry, releases, dl>>
Disk == <<files, venv>>

\* ------------------------------------------------------ starting a request
StartRequest(caller, version, hashArg, public, auto, cleanup, kwargs, default) ==
    LET hashes == NormalizeHashes(hashArg)
        case == <<B2I(version # "None"), B2I(hashes # {}), B2I(public), B2I(auto)>>
    IN  /\ req' = [caller |-> caller, version |-> version, hashes |-> hashes,
                   case |-> case, row |-> BuffetRow(case), kwargs |-> kwargs,
                   cleanup |-> cleanup, default |-> default,
                   hadDist |-> \E d \in registry.dists :
                                  d.name = PkgName /\ d.version = version,
                   given |-> IF hashArg.kind = "str" THEN {hashArg.s} ELSE hashArg.hs,
                   before |-> <<registry, files, venv>>]
        /\ pc' = IF BuffetRow(case) = 0 THEN "returned" ELSE "buffet"
        /\ stage' = 1
        /\ mod' = "None"
        /\ result' = NoResult
        /\ log' = << >>
        /\ remaining' = {} /\ H' = 0 /\ url' = 0 /\ entry' = NoEntry
        /\ releases' = << >> /\ dl' = NoDownload
        /\ UNCHANGED <<registry, files, venv, using>>
        /\ UNCHANGED aside

\* Use._use_package up to the call of buffet_table
UsePackage ==
    /\ pc = "idle"
    /\ \E version \in Versions \cup {"None"}, hashArg \in HashArgs,
          auto \in BOOLEAN, no_cleanup \in BOOLEAN, found \in BOOLEAN,
          default \in Defaults :
          LET spec == IF using # "absent" THEN using = "spec"
                      ELSE IF ~auto THEN found
                      ELSE FALSE
          IN  /\ (auto \/ using # "absent") => ~found
              /\ StartRequest("_use_package", version, hashArg,
                              spec, auto, ~no_cleanup, UsePackageKwargs, default)

\* buffet_table called with a case computed the same way and a kwargs dict
\* that carries the keywords its callees declare
BuffetTable ==
    /\ pc = "idle"
    /\ \E version \in Versions \cup {"None"}, hashArg \in HashArgs,
          auto \in BOOLEAN, cleanup \in BOOLEAN, public \in BOOLEAN :
          StartRequest("buffet_table", version, hashArg,
                       public, auto, cleanup, CalleeKwargs, "fastfail")

\* ------------------------------------------------------ pipeline plumbing
Callee == IF pc = "buffet" /\ req.row > 0 THEN BuffetPipeline[req.row][stage] ELSE ""

\* an exception leaves buffet_table (and Use._use_package) by raise
Raise(exc) ==
    /\ pc' = "done"
    /\ result' = [kind |-> "raised", exc |-> exc, from |-> ""]

\* a pipeline call returned value m; the next call of the pipeline takes it
\* as first argument, the last one's value is what buffet_table returns
Hand(m) ==
    /\ mod' = m
    /\ IF stage < Len(BuffetPipeline[req.row])
       THEN pc' = "buffet" /\ stage' = stage + 1
       ELSE pc' = "returned" /\ stage' = stage

Event(e) == log' = Append(log, e)


\* --------------------------------------------------- the pipeline callees
\* _import_public_no_install: sys.modules.get(mod_name) or import_module
ImportPublicNoInstall ==
    /\ Callee = "_import_public_no_install"
    /\ IF ~Binds("_import_public_no_install", req.kwargs)
       THEN /\ Raise("TypeError")
            /\ UNCHANGED <<mod, stage, log>>
       ELSE \E imported \in BOOLEAN :
              /\ Event("import_public")
              /\ IF imported
                 THEN Hand("module") /\ result' = [kind |-> "none", exc |-> "", from |-> "public"]
                 ELSE Raise("ImportError") /\ UNCHANGED <<mod, stage>>
    /\ UNCHANGED <<registry, Disk, using, req, Locals>>
    /\ UNCHANGED aside

\* _ensure_version: warns on a version mismatch, returns its argument
EnsureVersion ==
    /\ Callee = "_ensure_version"
    /\ IF ~Binds("_ensure_version", req.kwargs)
       THEN /\ Raise("TypeError")
            /\ UNCHANGED <<mod, stage, log>>
       ELSE /\ Event("ensure_version")
            /\ Hand(mod)
            /\ UNCHANGED result
    /\ UNCHANGED <<registry, Disk, using, req, Locals>>
    /\ UNCHANGED aside

\* variant: the value handed in is ignored
IsModuleOrException_Ignored(m) == FALSE

\* _auto_install: isinstance(mod, ModuleType | Exception)
IsModuleOrException(m) == m \in {"module", "exception"}

\* _auto_install, first part: the mod argument, then the registry lookup
AutoInstall ==
    /\ Callee = "_auto_install"
    /\ IF ~Binds("_auto_install", req.kwargs)
       THEN /\ Raise("TypeError")
            /\ UNCHANGED <<mod, stage, log, entry>>
       ELSE IF IsModuleOrException(mod)
       THEN /\ Hand(mod)
            /\ UNCHANGED <<result, log, entry>>
       ELSE LET found == CheckDbForInstallation(registry, PkgName, req.version)
            IN  /\ Event("lookup")
                /\ entry' = found
                /\ pc' = IF found.present THEN "cached" ELSE "fetch"
                /\ UNCHANGED <<mod, stage, result>>
    /\ UNCHANGED <<registry, Disk, using, req, remaining, H, url, releases, dl>>
    /\ UNCHANGED aside

\* a value returned by _auto_install is what buffet_table returns
Return(kind, exc, from) ==
    /\ pc' = "returned"
    /\ mod' = IF kind = "module" THEN "module" ELSE "exception"
    /\ result' = [kind |-> "none", exc |-> exc, from |-> from]

\* _auto_install, registry entry found: load from the recorded paths
CachedLoad ==
    /\ pc = "cached"
    /\ Event("cached_load")
    /\ IF entry.pure_python_package
       THEN IF files[entry.artifact_path] = Absent
            THEN Raise("AssertionError") /\ UNCHANGED mod
            ELSE \E loaded \in BOOLEAN :
                   IF loaded THEN Return("module", "", "cached")
                   ELSE Raise("ImportError") /\ UNCHANGED mod
       ELSE IF ~venv[entry.installation_path].site
            THEN Raise("AssertionError") /\ UNCHANGED mod
            ELSE \E loaded \in BOOLEAN :
                   IF loaded THEN Return("module", "", "cached")
                   ELSE Return("exception", "ImportError", "")
    /\ UNCHANGED <<registry, Disk, using, req, stage, Locals>>
    /\ UNCHANGED aside

\* _get_releases_from_pypi: GET index/pkg, GET index/pkg/version/json
GetReleasesFromPypi ==
    /\ pc = "fetch"
    /\ Event("fetch_releases")
    /\ \E reply \in {"ok", "pkg404", "pkgerr", "ver404", "vererr"} :
         CASE reply = "ok" ->
                /\ releases' = Catalog[req.version]
                /\ remaining' = req.hashes
                /\ pc' = "loop"
                /\ UNCHANGED <<mod, result>>
           [] reply = "pkg404" ->
                Return("exception", "ImportError", "") /\ UNCHANGED <<releases, remaining>>
           [] reply = "vererr" ->
                Raise("JSONError") /\ UNCHANGED <<mod, releases, remaining>>
           [] OTHER ->
                Return("exception", "RuntimeWarning", "") /\ UNCHANGED <<releases, remaining>>
    /\ UNCHANGED <<registry, Disk, using, req, stage, H, url, entry, dl>>
    /\ UNCHANGED aside

\* variant: the first release is taken whatever the hash
SelectUrl_FirstRelease(rels, h) ==
    IF rels = << >> THEN 0 ELSE rels[1].id

\* variant: the first release is taken when no digest equals the hash
SelectUrl_Fallback(rels, h) ==
    LET hits == {k \in 1..Len(rels) : h = IntHex(rels[k].digest)}
    IN  IF rels = << >> THEN 0
        ELSE IF hits = {} THEN rels[1].id
        ELSE rels[CHOOSE k \in hits : \A j \in hits : k <= j].id

\* next(URL(R.url) for R in releases if H == int(R.digests[algo], 16)), None)
SelectUrl(rels, h) ==
    LET hits == {k \in 1..Len(rels) : h = IntHex(rels[k].digest)}
    IN  IF hits = {} THEN 0
        ELSE rels[CHOOSE k \in hits : \A j \in hits : k <= j].id

\* _auto_install: head of "for H in user_provided_hashes" with the url
\* selection, and the code after the loop
NextHash ==
    /\ pc = "loop"
    /\ IF remaining = {}
       THEN /\ Return("exception", "ImportError", "")
            /\ UNCHANGED <<remaining, H, url, log>>
       ELSE \E h \in remaining :
              /\ remaining' = remaining \ {h}
              /\ H' = h
              /\ url' = SelectUrl(releases, h)
              /\ Event("select")
              /\ IF SelectUrl(releases, h) = 0
                 THEN Return("exception", "UnexpectedHash", "")
                 ELSE pc' = "download" /\ UNCHANGED <<mod, result>>
    /\ UNCHANGED <<registry, Disk, using, req, stage, entry, releases, dl>>
    /\ UNCHANGED aside


\* variant: any file that exists passes the check
HashMatches_AnyFile(content, hash_value) == content # Absent

\* _download_artifact: int(hash_algo.value(read_bytes()).hexdigest(), 16) == hash_value
HashMatches(content, hash_value) == DigestOf(content) = hash_value

\* _download_artifact: reuse a matching file, else GET and write, check, GET
\* and write once more on a mismatch, check again
DownloadArtifact ==
    /\ pc = "download"
    /\ LET fn == ReleaseById(url).filename
           served == {GenuineContent(url), Corrupt}
       IN  IF files[fn] # Absent /\ HashMatches(files[fn], H)
           THEN /\ dl' = [pre |-> TRUE, gets |-> 0, first |-> Absent,
                          second |-> Absent, final |-> files[fn],
                          hash_value |-> H]
                /\ Event("download")
                /\ pc' = "install"
                /\ UNCHANGED <<files, result>>
           ELSE \E first \in served, second \in served :
                  LET again == ~HashMatches(first, H)
                      final == IF again THEN second ELSE first
                  IN  /\ (~again) => second = first
                      /\ dl' = [pre |-> FALSE, gets |-> IF again THEN 2 ELSE 1,
                                first |-> first,
                                second |-> IF again THEN second ELSE Absent,
                                final |-> final, hash_value |-> H]
                      /\ files' = [files EXCEPT ![fn] = final]
                      /\ Event("download")
                      /\ IF ~HashMatches(final, H)
                         THEN Raise("ImportError")
                         ELSE pc' = "install" /\ UNCHANGED result
    /\ UNCHANGED <<registry, venv, using, req, stage, mod, remaining, H, url,
                   entry, releases>>
    /\ UNCHANGED aside

\* shutil.rmtree(entry.installation_path) on the site directory
Rmtree(v, path) == [v EXCEPT ![path].site = FALSE]

\* variant: the block does not end with "continue"
ExceptBlock_NoContinue(venvNow, logNow) ==
    /\ venv' = venvNow
    /\ log' = Append(logNow, "failed")
    /\ pc' = IF entry.present THEN "save" ELSE "loop"
    /\ UNCHANGED result

\* _auto_install: the "except BaseException" block of the loop body, entered
\* with the directories and the event log as the failed step left them
ExceptBlock(venvNow, logNow) ==
    IF entry.present /\ req.cleanup
    THEN /\ log' = logNow \o <<"failed", "rmtree">>
         /\ IF venvNow[entry.installation_path].site
            THEN /\ venv' = Rmtree(venvNow, entry.installation_path)
                 /\ pc' = "loop"
                 /\ UNCHANGED result
            ELSE /\ venv' = venvNow
                 /\ Raise("FileNotFoundError")
    ELSE /\ venv' = venvNow
         /\ log' = Append(logNow, "failed")
         /\ pc' = "loop"
         /\ UNCHANGED result

\* what a failed run of the package manager may leave of the install tree
PipLeftovers(d) ==
    {n \in [root : BOOLEAN, site : BOOLEAN] :
        /\ d.root => n.root
        /\ d.site => n.site
        /\ n.site => n.root}

\* _install: "if not any(site_pkgs_dir): force_install = True"; with a
\* site-packages directory module_paths is the generator of rglob, which is
\* true whatever it would yield; then "if not module_paths or force_install"
PipRequired(site, force_install) ==
    IF ~site THEN TRUE ELSE force_install

\* _install: run(**setup) with check=True stands after the try block whose
\* except clause raises InstallationError, so a failing subprocess leaves
\* _install as the exception of subprocess.run
PipError == "CalledProcessError"

\* _install(force_install=True): archive_meta, pip into the isolated prefix,
\* _find_module_in_venv; a raise lands in the except block of _auto_install
Install ==
    /\ pc = "install"
    /\ LET v == req.version
           fn == ReleaseById(url).filename
           pip == PipRequired(venv[v].site, TRUE)
           ran == IF pip THEN Append(log, "pip") ELSE log
           built == IF pip THEN [venv EXCEPT ![v] = [root |-> TRUE, site |-> TRUE]]
                    ELSE venv
       IN  \E outcome \in {"meta_fail", "pip_fail", "locate_fail", "ok"} :
             CASE outcome = "meta_fail" ->
                    /\ ExceptBlock(venv, log)
                    /\ UNCHANGED entry
               [] outcome = "pip_fail" ->
                    /\ pip
                    /\ \E left \in PipLeftovers(venv[v]) :
                          ExceptBlock([venv EXCEPT ![v] = left], Append(ran, PipError))
                    /\ UNCHANGED entry
               [] outcome = "locate_fail" ->
                    /\ ExceptBlock(built, ran)
                    /\ UNCHANGED entry
               [] OTHER ->
                    /\ venv' = built
                    /\ entry' = [present |-> TRUE, artifact_path |-> fn,
                                 installation_path |-> v,
                                 pure_python_package |-> FALSE]
                    /\ log' = Append(ran, "installed")
                    /\ pc' = "import"
                    /\ UNCHANGED result
    /\ UNCHANGED <<registry, files, using, req, stage, mod, remaining, H, url,
                   releases, dl>>
    /\ UNCHANGED aside

\* _load_venv_entry on the fresh install; a raise lands in the except block
LoadVenvEntry ==
    /\ pc = "import"
    /\ \E imported \in BOOLEAN :
         IF imported
         THEN /\ log' = Append(log, "imported")
              /\ pc' = "save"
              /\ UNCHANGED <<venv, result>>
         ELSE ExceptBlock(venv, log)
    /\ UNCHANGED <<registry, files, using, req, stage, mod, Locals>>
    /\ UNCHANGED aside

\* _auto_install: _save_package_info with the digest of the artifact on disk,
\* then return mod
SavePackageInfoAndReturn ==
    /\ pc = "save"
    /\ registry' = SavePackageInfo(registry, PkgName, req.version,
                                   entry.artifact_path, entry.installation_path,
                                   DigestOf(files[entry.artifact_path]))
    /\ Event("commit")
    /\ Return("module", "", "installed")
    /\ UNCHANGED <<Disk, using, req, stage, Locals>>
    /\ UNCHANGED aside

\* _pebkac_no_version_no_hash: asks the index for the project, returns advice
PebkacNoVersionNoHash ==
    /\ Callee = "_pebkac_no_version_no_hash"
    /\ IF ~Binds("_pebkac_no_version_no_hash", req.kwargs)
       THEN Raise("TypeError") /\ UNCHANGED <<mod, log>>
       ELSE /\ Event("fetch_project")
            /\ \E reply \in {"ok", "pkg404", "pkgerr"} :
                 Return("exception",
                        IF reply = "pkg404" THEN "ImportError" ELSE "RuntimeWarning", "")
    /\ UNCHANGED <<registry, Disk, using, req, stage, Locals>>
    /\ UNCHANGED aside

\* _pebkac_no_hash: asks the index for the releases of the version and
\* returns advice; an error reply is passed on to _filter_by_platform, whose
\* type check raises
PebkacNoHash ==
    /\ Callee = "_pebkac_no_hash"
    /\ IF ~Binds("_pebkac_no_hash", req.kwargs)
       THEN Raise("TypeError") /\ UNCHANGED <<mod, log>>
       ELSE /\ Event("fetch_releases")
            /\ \E reply \in {"ok", "error"} :
                 IF reply = "ok" THEN Return("exception", "RuntimeWarning", "")
                 ELSE Raise("BeartypeCallHintViolation") /\ UNCHANGED mod
    /\ UNCHANGED <<registry, Disk, using, req, stage, Locals>>
    /\ UNCHANGED aside

\* _pebkac_no_version
PebkacNoVersion ==
    /\ Callee = "_pebkac_no_version"
    /\ IF ~Binds("_pebkac_no_version", req.kwargs)
       THEN Raise("TypeError") /\ UNCHANGED <<mod, log>>
       ELSE Return("exception", "RuntimeWarning", "") /\ UNCHANGED log
    /\ UNCHANGED <<registry, Disk, using, req, stage, Locals>>
    /\ UNCHANGED aside

\* buffet_table, last case: ImportError(Message.cant_import(kwargs["pkg_name"]))
CantImport ==
    /\ Callee = "cant_import"
    /\ IF ~Binds("cant_import", req.kwargs)
       THEN Raise("KeyError") /\ UNCHANGED mod
       ELSE Return("exception", "ImportError", "")
    /\ UNCHANGED <<registry, Disk, using, req, stage, Locals, log>>
    /\ UNCHANGED aside

\* _fail_or_default(exception, default)
FailOrDefault(default) == IF default # "fastfail" THEN "default" ELSE "raised"

\* buffet_table has returned.  Use._use_package asserts the result, hands a
\* returned exception to _fail_or_default and records a module in _using;
\* a direct caller gets the value as it is.
Returned ==
    /\ pc = "returned"
    /\ pc' = "done"
    /\ IF req.row = 0
       THEN /\ result' = IF req.caller = "_use_package"
                         THEN [kind |-> "raised", exc |-> "AssertionError", from |-> ""]
                         ELSE [kind |-> "None", exc |-> "", from |-> ""]
            /\ UNCHANGED using
       ELSE IF mod = "module"
       THEN /\ result' = [result EXCEPT !.kind = "module"]
            /\ using' = IF req.caller = "_use_package"
                        THEN (IF req.case[3] = 1 THEN "spec" ELSE "nospec")
                        ELSE using
       ELSE /\ result' = [result EXCEPT !.kind =
                            IF req.caller = "_use_package"
                            THEN FailOrDefault(req.default) ELSE "exception"]
            /\ UNCHANGED using
    /\ UNCHANGED <<registry, Disk, req, stage, mod, Locals, log>>
    /\ UNCHANGED aside

\* the caller has the outcome; the next request may start
Finish ==
    /\ pc = "done"
    /\ pc' = "idle"
    /\ req' = NoRequest
    /\ stage' = 0
    /\ mod' = "None"
    /\ result' = NoResult
    /\ log' = << >>
    /\ remaining' = {} /\ H' = 0 /\ url' = 0 /\ entry' = NoEntry
    /\ releases' = << >> /\ dl' = NoDownload
    /\ UNCHANGED <<registry, Disk, using>>
    /\ UNCHANGED aside

Next ==
    \/ UsePackage
    \/ BuffetTable
    \/ ImportPublicNoInstall
    \/ EnsureVersion
    \/ AutoInstall
    \/ CachedLoad
    \/ GetReleasesFromPypi
    \/ NextHash
    \/ DownloadArtifact
    \/ Install
    \/ LoadVenvEntry
    \/ SavePackageInfoAndReturn
    \/ PebkacNoVersionNoHash
    \/ PebkacNoHash
    \/ PebkacNoVersion
    \/ CantImport
    \/ Returned
    \/ Finish

Spec == Init /\ [][Next]_vars

TypeOK ==
    /\ pc \in {"idle", "buffet", "cached", "fetch", "loop", "download",
               "install", "import", "save", "returned", "done"}
    /\ files \in [Filenames -> Contents]
    /\ using \in {"absent", "spec", "nospec"}
    /\ mod \in {"None", "module", "exception"}


\* ================================================== direct registry calls
\* The registry functions called one after the other on the registry and the
\* disk of the package requests, with no request in progress.

\* most rows the AUTOINCREMENT counters hand out in one run
MaxRows == 3

\* variant: the rows of every version of the name are deleted
DelEntry_EveryVersion(reg, name, version) ==
    LET dids == {d.id : d \in {x \in reg.dists : x.name = name}}
        aids == {a.id : a \in {x \in reg.arts : x.distribution_id \in dids}}
    IN  [reg EXCEPT !.hashes = {h \in @ : h.artifact_id \notin aids},
                    !.arts = {a \in @ : a.distribution_id \notin dids},
                    !.dists = {d \in @ : d.name # name}]

\* variant: only the third DELETE is carried out
DelEntry_DistributionOnly(reg, name, version) ==
    [reg EXCEPT !.dists = {d \in @ : ~(d.name = name /\ d.version = version)}]

\* Use.del_entry: DELETE FROM hashes, FROM artifacts, FROM distributions for
\* the distributions of (name, version), then commit
DelEntry(reg, name, version) ==
    LET dids == {d.id : d \in {x \in reg.dists : x.name = name /\ x.version = version}}
        aids == {a.id : a \in {x \in reg.arts : x.distribution_id \in dids}}
    IN  [reg EXCEPT !.hashes = {h \in @ : h.artifact_id \notin aids},
                    !.arts = {a \in @ : a.distribution_id \notin dids},
                    !.dists = {d \in @ : ~(d.name = name /\ d.version = version)}]

\* Use.cleanup: SELECT name, version, artifact_path, installation_path FROM
\* distributions JOIN artifacts ON distributions.id = distribution_id
CleanupRows(reg) ==
    {[name |-> da[1].name, version |-> da[1].version,
      artifact_path |-> da[2].artifact_path,
      installation_path |-> da[1].installation_path] :
        da \in {x \in reg.dists \X reg.arts : x[1].id = x[2].distribution_id}}

\* Use._set_up_registry: row_factory makes every fetched row a dict keyed by
\* column name.  Use.cleanup: "for name, version, artifact_path,
\* installation_path in rows" unpacks each dict, which gives its keys
UnpackRow(row) == <<"name", "version", "artifact_path", "installation_path">>

\* _ensure_path(p).exists(): an artifact under config.packages, an install
\* directory under config.venv, or else a path relative to the working
\* directory
PathExists(p, fs, vs, inCwd) ==
    IF p \in Filenames THEN fs[p] # Absent
    ELSE IF p \in Versions THEN vs[p].site
    ELSE inCwd

\* Use.cleanup: the (name, version) pairs handed to del_entry
CleanupDeletes(reg, fs, vs, inCwd) ==
    {<<UnpackRow(r)[1], UnpackRow(r)[2]>> :
        r \in {x \in CleanupRows(reg) :
                 ~(PathExists(UnpackRow(x)[3], fs, vs, inCwd)
                   /\ PathExists(UnpackRow(x)[4], fs, vs, inCwd))}}

RECURSIVE DelEach(_, _)
\* Use.cleanup: del_entry for each of them
DelEach(reg, keys) ==
    IF keys = {} THEN reg
    ELSE LET k == CHOOSE x \in keys : TRUE
         IN  DelEach(DelEntry(reg, k[1], k[2]), keys \ {k})

Cleanup(reg, fs, vs, inCwd) == DelEach(reg, CleanupDeletes(reg, fs, vs, inCwd))

\* the registry calls leave everything else as it is
RegistryFrame ==
    UNCHANGED <<using, req, pc, stage, mod, remaining, H, url, entry, releases,
                result, dl, log, cmpVars, impl, rlVars, pxVars, catVars,
                impVars, idxVars>>

\* _save_package_info as _auto_install calls it: the installation path is
\* that of the version, the hash is the digest of the artifact
SaveCall ==
    /\ registry.seqD < MaxRows
    /\ \E v \in Versions, a \in Filenames :
         LET id == CHOOSE n \in ReleaseIds : ReleaseById(n).filename = a
             new == SavePackageInfo(registry, PkgName, v, a, v,
                                    DigestOf(GenuineContent(id)))
         IN  /\ registry' = new
             /\ saved' = IF new # registry
                         THEN [saved EXCEPT ![v] =
                                 [present |-> TRUE, artifact_path |-> a,
                                  installation_path |-> v]]
                         ELSE saved
             /\ op' = IF new # registry THEN "insert" ELSE "skip"
    /\ UNCHANGED <<files, venv>>
    /\ RegistryFrame

\* Use.del_entry(name, version)
DelCall ==
    /\ \E v \in Versions :
         /\ registry' = DelEntry(registry, PkgName, v)
         /\ saved' = [saved EXCEPT ![v] = NoSaved]
    /\ op' = "del"
    /\ UNCHANGED <<files, venv>>
    /\ RegistryFrame

\* Use.cleanup()
CleanupCall ==
    /\ \E inCwd \in BOOLEAN :
         /\ registry' = Cleanup(registry, files, venv, inCwd)
         /\ saved' = [v \in Versions |->
                        IF <<PkgName, v>> \in CleanupDeletes(registry, files, venv, inCwd)
                        THEN NoSaved ELSE saved[v]]
    /\ op' = "cleanup"
    /\ UNCHANGED <<files, venv>>
    /\ RegistryFrame

\* an artifact or an install directory is put on the disk or removed from it
DiskChange ==
    /\ \/ \E f \in Filenames :
            LET id == CHOOSE n \in ReleaseIds : ReleaseById(n).filename = f
            IN  /\ files' = [files EXCEPT ![f] =
                               IF @ = Absent THEN GenuineContent(id) ELSE Absent]
                /\ UNCHANGED venv
       \/ \E v \in Versions :
            /\ venv' = [venv EXCEPT ![v] =
                          IF @.site THEN [root |-> FALSE, site |-> FALSE]
                          ELSE [root |-> TRUE, site |-> TRUE]]
            /\ UNCHANGED files
    /\ op' = "disk"
    /\ UNCHANGED <<registry, saved>>
    /\ RegistryFrame

RegistryNext ==
    \/ SaveCall
    \/ DelCall
    \/ CleanupCall
    \/ DiskChange

RegistrySpec == Init /\ [][RegistryNext]_vars


\* ================================================ the compatibility check
\* Annotations are an origin with its arguments: int is <<"int", <<>>>>,
\* list[int] is <<"list", <<"int">>>>.  "empty" is inspect._empty (no
\* annotation), "Any" is typing.Any, "None" is the value None.
T(n) == [o |-> n, a |-> << >>]
Empty == T("empty")
AnyT == T("Any")
NoneT == T("None")
IntT == T("int")
BoolT == T("bool")
ListOfInt == [o |-> "list", a |-> <<"int">>]

\* the classes of the model with the classes each one is a subclass of
\* (issubclass, with the registrations of the numbers module)
Supers(c) ==
    CASE c = "bool" -> {"bool", "int", "Integral", "Rational", "Real", "Complex", "Number"}
      [] c = "int" -> {"int", "Integral", "Rational", "Real", "Complex", "Number"}
      [] c = "float" -> {"float", "Real", "Complex", "Number"}
      [] c = "Integral" -> {"Integral", "Rational", "Real", "Complex", "Number"}
      [] c = "Rational" -> {"Rational", "Real", "Complex", "Number"}
      [] c = "Real" -> {"Real", "Complex", "Number"}
      [] c = "Complex" -> {"Complex", "Number"}
      [] c = "str" -> {"str"}
      [] c = "list" -> {"list"}
      [] OTHER -> {}

\* a class, as issubclass demands: not None, not a parameterized alias
IsClass(t) == t.a = << >> /\ Supers(t.o) # {}
IsSubclass(c, d) == d \in Supers(c)

\* numerics = [bool, Integral, Rational, Real, Complex]
Numerics == <<"bool", "Integral", "Rational", "Real", "Complex">>

\* _check: "for X in numerics: if issubclass(x, X): break" and then x = X
Tower(c) ==
    LET hits == {k \in 1..Len(Numerics) : IsSubclass(c, Numerics[k])}
    IN  IF hits = {} THEN Numerics[Len(Numerics)]
        ELSE Numerics[CHOOSE k \in hits : \A j \in hits : k <= j]

\* get_origin(x) or x
Origin(t) == IF t.a # << >> THEN T(t.o) ELSE t

\* t.__module__ can be read (None has no such attribute)
HasModuleAttr(t) == t # NoneT

\* all(...) over results computed in order: the first that is not True, which
\* is False or the exception that ends the evaluation
AllOf(rs) ==
    LET bad == {k \in 1..Len(rs) : rs[k] # "True"}
    IN  IF bad = {} THEN "True" ELSE rs[CHOOSE k \in bad : \A j \in bad : k <= j]

\* zip_longest(xs, ys, fillvalue=Any)
ZipLongest(xs, ys) ==
    [k \in 1..(IF Len(xs) >= Len(ys) THEN Len(xs) ELSE Len(ys)) |->
        << IF k <= Len(xs) THEN xs[k] ELSE AnyT,
           IF k <= Len(ys) THEN ys[k] ELSE AnyT >>]

RECURSIVE Check(_, _)
RECURSIVE CheckSomething(_, _)

\* variant: Any on the new side is accepted too
Check_NewAnyAccepted(x, y) ==
    IF x = AnyT \/ y = AnyT THEN "True" ELSE CheckSomething(x, y)

\* _check: "if x is Any: return True", "if y is Any: return False", then the
\* cases something => something else
Check(x, y) ==
    IF x = AnyT THEN "True"
    ELSE IF y = AnyT THEN "False"
    ELSE CheckSomething(x, y)

\* _check from "with contextlib.suppress(TypeError)" on: two number classes
\* are mapped to the numeric tower; the origins are taken; t.__module__ is
\* read of both; then issubclass(Y, X) and the arguments pairwise
CheckSomething(x, y) ==
    LET numbers == /\ IsClass(x) /\ "Number" \in Supers(x.o)
                   /\ IsClass(y) /\ "Number" \in Supers(y.o)
        x1 == IF numbers THEN T(Tower(x.o)) ELSE x
        y1 == IF numbers THEN T(Tower(y.o)) ELSE y
        X == Origin(x1)
        Y == Origin(y1)
        args == ZipLongest([k \in 1..Len(x1.a) |-> T(x1.a[k])],
                           [k \in 1..Len(y1.a) |-> T(y1.a[k])])
    IN  IF ~HasModuleAttr(X) \/ ~HasModuleAttr(Y) THEN "AttributeError"
        ELSE IF ~IsClass(X) \/ ~IsClass(Y) THEN "TypeError"
        ELSE IF IsSubclass(Y.o, X.o)
             THEN AllOf([k \in 1..Len(args) |-> Check(args[k][1], args[k][2])])
        ELSE "False"

\* the order of parameter names that sorted() uses
NameOrder == <<"a", "b">>
NameRank(n) == CHOOSE k \in 1..Len(NameOrder) : NameOrder[k] = n

\* sorted(kwargs): by parameter name
SortedByName(ps) ==
    [k \in 1..Len(ps) |->
        ps[CHOOSE i \in 1..Len(ps) :
              Cardinality({j \in 1..Len(ps) :
                             NameRank(ps[j].name) < NameRank(ps[i].name)}) = k - 1]]

\* _is_compatible: "if v.kind is v.VAR_KEYWORD or v.POSITIONAL_OR_KEYWORD";
\* the second operand is an enum member, which is true
ListedAsKwarg(kind) == kind = "VAR_KEYWORD" \/ TRUE

SelectSeq2(ps, keep) ==
    LET F[i \in 0..Len(ps)] ==
           IF i = 0 THEN << >>
           ELSE IF ListedAsKwarg(ps[i].kind) = keep THEN Append(F[i - 1], ps[i])
           ELSE F[i - 1]
    IN  F[Len(ps)]

\* "result if result is not inspect._empty else Any"
OrAny(t) == IF t = Empty THEN AnyT ELSE t

\* _extracted_from__is_compatible_: the annotations of args in declaration
\* order, of kwargs sorted by name, and the return annotation
ExtractedFromIsCompatible(sig) ==
    LET args == SelectSeq2(sig.params, FALSE)
        kwargs == SortedByName(SelectSeq2(sig.params, TRUE))
    IN  [k \in 1..Len(args) |-> OrAny(args[k].annotation)]
        \o [k \in 1..Len(kwargs) |-> OrAny(kwargs[k].annotation)]
        \o <<OrAny(sig.return_annotation)>>

\* _is_compatible; inspect.signature of an object that is not callable raises
IsCompatible(preObj, postObj) ==
    IF ~postObj.callable THEN "TypeError"
    ELSE LET slots == ZipLongest(ExtractedFromIsCompatible(preObj.sig),
                                 ExtractedFromIsCompatible(postObj.sig))
         IN  AllOf([k \in 1..Len(slots) |-> Check(slots[k][1], slots[k][2])])

HasAttr(unit, n) == \E k \in 1..Len(unit) : unit[k].name = n
GetAttr(unit, n) == unit[CHOOSE k \in 1..Len(unit) : unit[k].name = n].obj

\* _modules_are_compatible: the callables of pre.__dict__ in its order
ModulesAreCompatible(preUnit, postUnit) ==
    AllOf([k \in 1..Len(preUnit) |->
             IF ~preUnit[k].obj.callable THEN "True"
             ELSE IF ~HasAttr(postUnit, preUnit[k].name) THEN "False"
             ELSE IsCompatible(preUnit[k].obj, GetAttr(postUnit, preUnit[k].name))])

\* ---- the units compared
NoSig == [params |-> << >>, return_annotation |-> Empty]
Value == [callable |-> FALSE, sig |-> NoSig]
Fn(sig) == [callable |-> TRUE, sig |-> sig]

ParamTypes == {Empty, AnyT, NoneT, IntT, BoolT, ListOfInt}
ReturnTypes == {Empty, NoneT, IntT, ListOfInt}
\* f(a: int, b: list[int]) and f(b: list[int], a: int), the first parameter
\* positional-only or not
TwoParams ==
    LET a(k) == [name |-> "a", kind |-> k, annotation |-> IntT]
        b(k) == [name |-> "b", kind |-> k, annotation |-> ListOfInt]
    IN  UNION { {<<a(k), b("POSITIONAL_OR_KEYWORD")>>,
                 <<b(k), a("POSITIONAL_OR_KEYWORD")>>} :
                k \in {"POSITIONAL_ONLY", "POSITIONAL_OR_KEYWORD"} }

Sigs ==
    {[params |-> ps, return_annotation |-> r] :
        ps \in {<< >>} \cup
               {<<[name |-> "a", kind |-> "POSITIONAL_OR_KEYWORD", annotation |-> t]>> :
                   t \in ParamTypes},
        r \in ReturnTypes}
    \cup {[params |-> ps, return_annotation |-> Empty] : ps \in TwoParams}

\* a unit has an attribute f, and may have an attribute g after it
Units ==
    LET fs == {Fn(s) : s \in Sigs} \cup {Value}
        gs == {Fn(NoSig), Value}
    IN  {<<[name |-> "f", obj |-> o]>> : o \in fs}
        \cup {<<[name |-> "f", obj |-> o], [name |-> "g", obj |-> q]>> :
                o \in fs, q \in gs}

CompatFrame ==
    UNCHANGED <<pkgVars, regVars, impl, rlVars, pxVars, catVars, impVars,
               idxVars>>

\* _modules_are_compatible(pre, post) is called
CallModulesAreCompatible ==
    /\ verdict = "none"
    /\ verdict' = ModulesAreCompatible(pre, post)
    /\ UNCHANGED <<pre, post>>
    /\ CompatFrame

\* the source is edited: the next rebuild is another unit
EditPost ==
    /\ verdict # "none"
    /\ \E u \in Units : post' = u
    /\ verdict' = "none"
    /\ UNCHANGED pre
    /\ CompatFrame

CompatInit ==
    /\ PkgInit /\ RegIdle /\ impl = << >> /\ RlIdle /\ PxIdle /\ CatIdle /\ ImpIdle /\ IdxIdle
    /\ pre \in Units
    /\ post \in Units
    /\ verdict = "none"

CompatNext ==
    \/ CallModulesAreCompatible
    \/ EditPost

CompatSpec == CompatInit /\ [][CompatNext]_vars


\* ============================================================ the reloader
\* A ProxyModule around the unit built from a watched file and a
\* ModuleReloader for it.  Each start_threaded / start_async adds a worker (a
\* thread or a task) that runs the polling loop; the file is edited and
\* stop() is called while the workers run.

\* largest number of workers started on one reloader
MaxWorkers == 2

\* contents of the watched file and the unit each one builds
Sources == {"A", "B", "C", "D", "E"}

\* E does not compile: compile() in _build_mod raises SyntaxError
BuildFails(code) == code = "E"

\* A: def f(a), def g()          B: def f(a: int), def g()
\* C: def f(a)                   D: def f(a) -> None, def g()
UnitOf(code) ==
    LET fa(t, r) == Fn([params |-> <<[name |-> "a", kind |-> "POSITIONAL_OR_KEYWORD",
                                       annotation |-> t]>>,
                        return_annotation |-> r])
        g == [name |-> "g", obj |-> Fn(NoSig)]
    IN  CASE code = "A" -> <<[name |-> "f", obj |-> fa(Empty, Empty)], g>>
          [] code = "B" -> <<[name |-> "f", obj |-> fa(IntT, Empty)], g>>
          [] code = "C" -> <<[name |-> "f", obj |-> fa(Empty, Empty)]>>
          [] code = "D" -> <<[name |-> "f", obj |-> fa(Empty, NoneT)], g>>
          [] OTHER -> << >>

\* hashlib.blake2b(code).hexdigest()
Blake2b(code) == [algo |-> "blake2b", of |-> code]

\* the keywords run_threaded and run_async pass to _build_mod
ReloaderBuildKwargs == {"module_name", "code", "initial_globals", "module_path"}

\* a worker at the start of run_threaded / run_async: last_filehash = None
NewWorker(kind) ==
    [kind |-> kind, at |-> "top", last_filehash |-> NoHash, exc |-> "",
     detected |-> "", live |-> << >>, built |-> FALSE, slept |-> FALSE]

\* Thread.is_alive() / the task has not finished
Alive(w) == w.at \in {"top", "body"}

\* self._stopped = True
StopFlag(r) == [r EXCEPT !.stopped = TRUE, !.stopCalled = TRUE]

ReloaderFrame ==
    UNCHANGED <<pkgVars, regVars, cmpVars, pxVars, catVars, impVars,
               idxVars>>

\* ModuleReloader.start_threaded, with its precondition
\* self._thread is None or self._thread.is_alive()
StartThreaded ==
    /\ Len(reloader.workers) < MaxWorkers
    /\ IF reloader.thread = 0 THEN TRUE
       ELSE Alive(reloader.workers[reloader.thread])
    /\ reloader' = [reloader EXCEPT !.stopped = FALSE,
                                    !.workers = Append(@, NewWorker("thread")),
                                    !.thread = Len(reloader.workers) + 1]
    /\ UNCHANGED <<source, impl, seen>>
    /\ ReloaderFrame

\* ModuleReloader.start_async: the task is created, _stopped is left as it is
StartAsync ==
    /\ Len(reloader.workers) < MaxWorkers
    /\ reloader' = [reloader EXCEPT !.workers = Append(@, NewWorker("task"))]
    /\ UNCHANGED <<source, impl, seen>>
    /\ ReloaderFrame

\* "while not self._stopped" of run_threaded and run_async
WhileNotStopped(i) ==
    /\ i <= Len(reloader.workers)
    /\ reloader.workers[i].at = "top"
    /\ reloader' = [reloader EXCEPT !.workers[i].at =
                       IF reloader.stopped THEN "returned" ELSE "body"]
    /\ UNCHANGED <<source, impl, seen>>
    /\ ReloaderFrame

\* the body of the loop in run_threaded and run_async: read, hash, compare
\* with last_filehash, rebuild, check, assign, sleep ("continue" goes back to
\* the top without the sleep).  The assignment replaces the implementation in
\* run_threaded (proxy._ProxyModule__implementation); in run_async the name
\* proxy.__implementation is mangled with the reloader's class name, so it is
\* set as an attribute of the live unit.  Only KeyError is caught.
Iteration(w) ==
    LET code == source
        current == Blake2b(code)
        found == [w EXCEPT !.detected = code, !.live = impl, !.built = TRUE,
                           !.slept = FALSE]
    IN  IF current = w.last_filehash
        THEN [unit |-> impl,
              worker |-> [w EXCEPT !.last_filehash = current, !.at = "top",
                                   !.built = FALSE, !.slept = TRUE]]
        ELSE IF ~Binds("_build_mod", ReloaderBuildKwargs)
        THEN [unit |-> impl,
              worker |-> [found EXCEPT !.at = "dead", !.exc = "TypeError"]]
        ELSE IF BuildFails(code)
        THEN [unit |-> impl,
              worker |-> [found EXCEPT !.at = "dead", !.exc = "SyntaxError"]]
        ELSE LET built == UnitOf(code)
                 ok == ModulesAreCompatible(impl, built)
             IN  CASE ok = "False" ->
                        [unit |-> impl, worker |-> [found EXCEPT !.at = "top"]]
                   [] ok = "True" ->
                        [unit |-> IF w.kind = "thread" THEN built ELSE impl,
                         worker |-> [found EXCEPT !.last_filehash = current,
                                                  !.at = "top", !.slept = TRUE]]
                   [] OTHER ->
                        [unit |-> impl,
                         worker |-> [found EXCEPT !.at = "dead", !.exc = ok]]

LoopBody(i) ==
    /\ i <= Len(reloader.workers)
    /\ reloader.workers[i].at = "body"
    /\ LET r == Iteration(reloader.workers[i])
       IN  /\ impl' = r.unit
           /\ reloader' = [reloader EXCEPT !.workers[i] = r.worker]
    /\ UNCHANGED <<source, seen>>
    /\ ReloaderFrame

\* ModuleReloader.stop
Stop ==
    /\ reloader.workers # << >>
    /\ reloader' = StopFlag(reloader)
    /\ UNCHANGED <<source, impl, seen>>
    /\ ReloaderFrame

\* the watched file is edited
EditSource ==
    /\ \E code \in Sources \ {source} : source' = code
    /\ UNCHANGED <<impl, reloader, seen>>
    /\ ReloaderFrame

\* the foreground reads an attribute through the proxy
ForegroundAccess ==
    /\ seen' = impl
    /\ UNCHANGED <<source, impl, reloader>>
    /\ ReloaderFrame

\* the proxy wraps the unit built from the file, the reloader is constructed
ReloaderInit ==
    /\ PkgInit /\ RegIdle /\ CmpIdle /\ PxIdle /\ CatIdle /\ ImpIdle /\ IdxIdle
    /\ source \in Sources \ {"E"}
    /\ impl = UnitOf(source)
    /\ reloader = [NoReloader EXCEPT !.loaded = source]
    /\ seen = << >>

ReloaderNext ==
    \/ StartThreaded
    \/ StartAsync
    \/ \E i \in 1..MaxWorkers : WhileNotStopped(i)
    \/ \E i \in 1..MaxWorkers : LoopBody(i)
    \/ Stop
    \/ EditSource
    \/ ForegroundAccess

ReloaderSpec == ReloaderInit /\ [][ReloaderNext]_vars

\* every thread and every task gets to run
ReloaderFairSpec ==
    /\ ReloaderInit /\ [][ReloaderNext]_vars
    /\ \A i \in 1..MaxWorkers :
          /\ WF_vars(WhileNotStopped(i))
          /\ WF_vars(LoopBody(i))

\* ============================================================ the proxy
\* One ProxyModule shared by foreground threads that read, write and call
\* through it while another thread stores a rebuilt unit in it with the
\* assignment of run_threaded, proxy._ProxyModule__implementation = mod.
\* Units are numbered in the order they are built; a unit's f and g carry the
\* number of the build they come from, x is a plain attribute.

MaxUnits == 3
UnitIds == 1..MaxUnits
SetValues == {1, 2}

NotBuilt == [f |-> 0, g |-> 0, x |-> 0]

\* _build_mod: a new module object with its own namespace, filled by exec
BuiltUnit(n) == [f |-> n, g |-> n, x |-> 0]

\* a variant that updates the live unit's namespace in place, one name first
Replace_InPlace(store, handle, built) ==
    [impl |-> handle, attr |-> [store EXCEPT ![handle].f = built]]

\* ProxyModule.__setattr__ for the name _ProxyModule__implementation:
\* object.__setattr__ stores the reference to the finished unit
Replace(store, handle, built) ==
    [impl |-> built, attr |-> [store EXCEPT ![built] = BuiltUnit(built)]]

ProxyFrame ==
    UNCHANGED <<pkgVars, regVars, cmpVars, rlVars, catVars, impVars,
               idxVars>>

\* variant: a lock that its owner cannot take again
CanAcquire_NotReentrant(l, t) == l.owner = ""

\* threading.RLock.acquire returns when the lock is free or this thread's
CanAcquire(l, t) == l.owner \in {"", t}

\* threading.RLock: acquire and release count the levels of the owner
Locked(l, t) == [owner |-> t, count |-> l.count + 1]
Unlocked(l) == IF l.count = 1 THEN NoLock ELSE [l EXCEPT !.count = l.count - 1]

\* a thread starts proxy.name, proxy.name = value or proxy(...)
Begin(t) ==
    /\ acc[t].at = "idle"
    /\ \E o \in {"getattr", "setattr", "call"} :
          acc' = [acc EXCEPT ![t] = [NoAccess EXCEPT !.at = "wait", !.op = o]]
    /\ UNCHANGED <<lock, attr, impl, worker, rcond>>
    /\ ProxyFrame

\* with self.__condition: the RLock is free or already this thread's
Acquire(t) ==
    /\ acc[t].at = "wait"
    /\ CanAcquire(lock, t)
    /\ lock' = Locked(lock, t)
    /\ acc' = [acc EXCEPT ![t].at = IF acc[t].depth = 0 THEN "locked" ELSE "nested"]
    /\ UNCHANGED <<attr, impl, worker, rcond>>
    /\ ProxyFrame

\* self.__implementation is evaluated
ReadHandle(t) ==
    /\ acc[t].at = "locked"
    /\ acc' = [acc EXCEPT ![t].at = "bound", ![t].unit = impl]
    /\ UNCHANGED <<lock, attr, impl, worker, rcond>>
    /\ ProxyFrame

\* getattr(unit, name), setattr(unit, name, value), or the start of unit(...)
Serve(t) ==
    /\ acc[t].at = "bound"
    /\ LET u == acc[t].unit
       IN  CASE acc[t].op = "getattr" ->
                  /\ acc' = [acc EXCEPT ![t].at = "served",
                                        ![t].part1 = attr[u].f,
                                        ![t].part2 = attr[u].f]
                  /\ UNCHANGED attr
             [] acc[t].op = "setattr" ->
                  /\ \E v \in SetValues : attr' = [attr EXCEPT ![u].x = v]
                  /\ acc' = [acc EXCEPT ![t].at = "served",
                                        ![t].part1 = attr[u].f,
                                        ![t].part2 = attr[u].f]
             [] acc[t].op = "call" ->
                  /\ acc' = [acc EXCEPT ![t].at = "running",
                                        ![t].part1 = attr[u].f]
                  /\ UNCHANGED attr
    /\ UNCHANGED <<lock, impl, worker, rcond>>
    /\ ProxyFrame

\* the code called through __call__ reads an attribute of the proxy itself,
\* with the lock of the call still held by its thread
Reenter(t) ==
    /\ acc[t].at = "running"
    /\ acc[t].depth = 0
    /\ acc' = [acc EXCEPT ![t].at = "wait", ![t].depth = 1]
    /\ UNCHANGED <<lock, attr, impl, worker, rcond>>
    /\ ProxyFrame

\* the called code looks up g in the namespace of the unit it belongs to
Run(t) ==
    /\ acc[t].at = "running"
    /\ acc' = [acc EXCEPT ![t].at = "served", ![t].part2 = attr[acc[t].unit].g]
    /\ UNCHANGED <<lock, attr, impl, worker, rcond>>
    /\ ProxyFrame

\* the with block is left: that of the access, or that of the attribute read
\* made from inside a call
Release(t) ==
    /\ acc[t].at \in {"served", "nested"}
    /\ lock' = Unlocked(lock)
    /\ acc' = [acc EXCEPT ![t].at = IF acc[t].at = "nested" THEN "running" ELSE "idle"]
    /\ UNCHANGED <<attr, impl, worker, rcond>>
    /\ ProxyFrame

\* run_threaded: "with self._condition", the next unit is built, and
\* _modules_are_compatible(self.proxy, mod) starts with pre.__dict__, an
\* attribute read through the proxy
WorkerEnter ==
    /\ worker = "idle"
    /\ impl < MaxUnits
    /\ CanAcquire(rcond, "reloader")
    /\ rcond' = Locked(rcond, "reloader")
    /\ worker' = "wait"
    /\ UNCHANGED <<lock, acc, attr, impl>>
    /\ ProxyFrame

\* ProxyModule.__getattribute__("__dict__") on the thread of run_threaded
WorkerAcquire ==
    /\ worker = "wait"
    /\ CanAcquire(lock, "reloader")
    /\ lock' = Locked(lock, "reloader")
    /\ worker' = "reading"
    /\ UNCHANGED <<acc, attr, impl, rcond>>
    /\ ProxyFrame

\* the read returns and the comparison ends: "continue" leaves the with
\* block of run_threaded, else the assignment is next
WorkerRelease ==
    /\ worker = "reading"
    /\ lock' = Unlocked(lock)
    /\ \E compatible \in BOOLEAN :
         IF compatible
         THEN worker' = "checked" /\ UNCHANGED rcond
         ELSE worker' = "idle" /\ rcond' = Unlocked(rcond)
    /\ UNCHANGED <<acc, attr, impl>>
    /\ ProxyFrame

\* the thread of run_threaded assigns the unit it built to the proxy, inside
\* "with self._condition" of the reloader, and leaves the with block; the
\* assignment does not take the proxy's lock
Swap ==
    /\ worker = "checked"
    /\ impl < MaxUnits
    /\ LET r == Replace(attr, impl, impl + 1)
       IN  impl' = r.impl /\ attr' = r.attr
    /\ worker' = "idle"
    /\ rcond' = Unlocked(rcond)
    /\ UNCHANGED <<lock, acc>>
    /\ ProxyFrame

\* ProxyModule(mod) around the first unit
ProxyInit ==
    /\ PkgInit /\ RegIdle /\ CmpIdle /\ RlIdle /\ CatIdle /\ ImpIdle /\ IdxIdle
    /\ impl = 1
    /\ attr = [u \in UnitIds |-> IF u = 1 THEN BuiltUnit(1) ELSE NotBuilt]
    /\ lock = NoLock
    /\ acc = [t \in Accessors |-> NoAccess]
    /\ worker = "idle"
    /\ rcond = NoLock

ProxyNext ==
    \/ \E t \in Accessors : Begin(t)
    \/ \E t \in Accessors : Acquire(t)
    \/ \E t \in Accessors : ReadHandle(t)
    \/ \E t \in Accessors : Serve(t)
    \/ \E t \in Accessors : Reenter(t)
    \/ \E t \in Accessors : Run(t)
    \/ \E t \in Accessors : Release(t)
    \/ WorkerEnter
    \/ WorkerAcquire
    \/ WorkerRelease
    \/ Swap

ProxySpec == ProxyInit /\ [][ProxyNext]_vars


\* ===================================================== the release catalog
\* _filter_by_platform and _sort_releases applied to lists of releases as
\* the two index replies produce them: PyPI_Release(**url, version=req_ver)
\* for the release list of one version ("urls": the reply has no tag
\* fields, so platform_tag and python_tag are None), and PyPI_Project's
\* get_info for the whole project ("project": the fields of _parse_filename
\* replace those of the reply).

MaxListing == 3

\* the host: CPython 3.11 on Linux with pip installed
SysPlatform == "linux"
OurPythonTag == "cp311"
SupportedPythonTags == {OurPythonTag, "py3", "cp3", "cp311", "py311"}
HostPlatformTags == {"manylinux1_x86_64", "linux_x86_64", "any"}

\* what the index publishes about a file
\*   wheel_linux  pkgX-V-cp311-cp311-manylinux1_x86_64.whl
\*   wheel_any    pkgX-V-py3-none-any.whl
\*   wheel_newer  pkgX-V-py3-none-any.whl, requires_python ">=3.12"
\*   wheel_win    pkgX-V-cp311-cp311-win32.whl
\*   sdist_targz  pkgX-V.tar.gz
\*   sdist_zip    pkgX-V.zip
Kinds == {"wheel_linux", "wheel_any", "wheel_newer", "wheel_win",
          "sdist_targz", "sdist_zip"}
Wheels == {"wheel_linux", "wheel_any", "wheel_newer", "wheel_win"}

PublishedType(k) == IF k \in Wheels THEN "bdist_wheel" ELSE "sdist"

PythonVersion(k) ==
    CASE k \in {"wheel_linux", "wheel_win"} -> "cp311"
      [] k \in {"wheel_any", "wheel_newer"} -> "py3"
      [] OTHER -> "source"

RequiresPython(k) == IF k = "wheel_newer" THEN ">=3.12" ELSE "None"

\* _parse_filename(filename): the tokens of the name without its extension
ParseFilename(k) ==
    CASE k = "wheel_linux" ->
            [python_tag |-> "cp311", abi_tag |-> "cp311",
             platform_tag |-> "manylinux1_x86_64", packagetype |-> "bdist"]
      [] k \in {"wheel_any", "wheel_newer"} ->
            [python_tag |-> "py3", abi_tag |-> "none",
             platform_tag |-> "any", packagetype |-> "bdist"]
      [] k = "wheel_win" ->
            [python_tag |-> "cp311", abi_tag |-> "cp311",
             platform_tag |-> "win32", packagetype |-> "bdist"]
      [] k = "sdist_targz" ->
            [python_tag |-> "None", abi_tag |-> "None",
             platform_tag |-> "None", packagetype |-> "source"]
      [] k = "sdist_zip" ->
            [python_tag |-> "None", abi_tag |-> "None",
             platform_tag |-> "None", packagetype |-> "bdist"]

\* PyPI_Release.justuse: the extension and the groups of the regular
\* expression matched against the rest of the filename
JustUse(k) ==
    CASE k = "wheel_linux" -> [ext |-> "whl", python_tag |-> "cp311", abi_tag |-> "cp311"]
      [] k \in {"wheel_any", "wheel_newer"} ->
                              [ext |-> "whl", python_tag |-> "py3", abi_tag |-> "none"]
      [] k = "wheel_win" ->   [ext |-> "whl", python_tag |-> "cp311", abi_tag |-> "cp311"]
      [] k = "sdist_targz" -> [ext |-> "tar.gz", python_tag |-> "None", abi_tag |-> "None"]
      [] k = "sdist_zip" ->   [ext |-> "zip", python_tag |-> "None", abi_tag |-> "None"]

\* the PyPI_Release built from one published file
PyPI_Release(fd, k, v, y) ==
    [kind |-> k, version |-> v, yanked |-> y,
     packagetype |-> IF fd = "project" THEN ParseFilename(k).packagetype
                     ELSE PublishedType(k),
     python_version |-> PythonVersion(k),
     requires_python |-> RequiresPython(k),
     python_tag |-> IF fd = "project" THEN ParseFilename(k).python_tag ELSE "None",
     platform_tag |-> IF fd = "project" THEN ParseFilename(k).platform_tag ELSE "None"]

Pool(fd) == {PyPI_Release(fd, k, v, y) : k \in Kinds, v \in Versions, y \in BOOLEAN}

\* PyPI_Release.is_sdist
IsSdist(r) ==
    \/ r.packagetype = "sdist"
    \/ r.python_version = "source"
    \/ JustUse(r.kind).abi_tag = "none"

\* r.filename.endswith(".tar.gz")
EndsWithTarGz(r) == r.kind = "sdist_targz"

\* Version(platform.python_version()) in SpecifierSet(p), for the host
HostSatisfies(p) == p # ">=3.12"

\* _is_platform_compatible(info, platform_tags, include_sdist).  The tags of
\* the modelled files hold no ".", so split(".") gives the tag itself;
\* ".tar" is a substring of no value of justuse.ext, "win" of no packagetype.
IsPlatformCompatible(info, include_sdist) ==
    IF ~include_sdist /\ JustUse(info.kind).python_tag \in {"cpsource", "sdist"}
    THEN FALSE
    ELSE IF info.platform_tag # "None" /\ info.platform_tag = "win32"
            /\ SysPlatform # "win32"
    THEN FALSE
    ELSE IF info.platform_tag = "None"
    THEN include_sdist
    ELSE LET given_python_tag ==
                 IF IsSdist(info) /\ info.requires_python # "None"
                 THEN IF HostSatisfies(info.requires_python)
                      THEN {OurPythonTag} ELSE {}
                 ELSE {info.python_tag}
         IN  /\ SupportedPythonTags \cap given_python_tag # {}
             /\ \/ IsSdist(info) /\ include_sdist
                \/ {info.platform_tag} \cap HostPlatformTags # {}

\* a variant of the inner filter that lets source archives through the
\* strict pass
Compatible_SourceAlways(info, include_sdist) ==
    /\ IsPlatformCompatible(info, TRUE)
    /\ ~info.yanked

\* compatible(info, include_sdist) of _filter_by_platform; the tuple of
\* extensions is ("tar", "tar.gz" "zip"), two members
Compatible(info, include_sdist) ==
    /\ IsPlatformCompatible(info, include_sdist)
    /\ ~info.yanked
    /\ (include_sdist \/ JustUse(info.kind).ext \notin {"tar", "tar.gzzip"})

\* [release for release in releases if compatible(release, include_sdist)]
Pass(rs, include_sdist) ==
    SelectSeq(rs, LAMBDA r : Compatible(r, include_sdist))

\* _filter_by_platform(releases, tags=get_supported())
FilterByPlatform(rs) ==
    IF Pass(rs, FALSE) # << >> THEN Pass(rs, FALSE) ELSE Pass(rs, TRUE)

VersionRank(v) == IF v = "1.0" THEN 1 ELSE 2

\* the key of _sort_releases
SortKey(r) ==
    <<1 - B2I(EndsWithTarGz(r)), 1 - B2I(IsSdist(r)), VersionRank(r.version)>>

\* tuple comparison k1 > k2
KeyGreater(k1, k2) ==
    \/ k1[1] > k2[1]
    \/ k1[1] = k2[1] /\ k1[2] > k2[2]
    \/ k1[1] = k2[1] /\ k1[2] = k2[2] /\ k1[3] > k2[3]

\* sorted(releases, key=..., reverse=True): descending, and elements with
\* equal keys keep the order they had
RECURSIVE InsertDescending(_, _)
InsertDescending(r, done) ==
    IF done = << >> THEN <<r>>
    ELSE IF KeyGreater(SortKey(r), SortKey(Head(done)))
         THEN <<r>> \o done
         ELSE <<Head(done)>> \o InsertDescending(r, Tail(done))

SortReleases(rs) ==
    LET F[i \in 0..Len(rs)] ==
           IF i = 0 THEN << >> ELSE InsertDescending(rs[i], F[i - 1])
    IN  F[Len(rs)]

\* lists of different files
Listings(fd) ==
    UNION { {l \in [1..n -> Pool(fd)] :
                \A i, j \in 1..n : i # j =>
                    <<l[i].kind, l[i].version>> # <<l[j].kind, l[j].version>>} :
            n \in 0..MaxListing }

CatalogFrame ==
    UNCHANGED <<pkgVars, regVars, cmpVars, impl, rlVars, pxVars, feed, impVars,
               idxVars>>

\* _filter_by_platform is called with the list at hand
CallFilterByPlatform ==
    /\ cop \in {"fetched", "sort"}
    /\ given' = out
    /\ out' = FilterByPlatform(out)
    /\ cop' = "filter"
    /\ CatalogFrame

\* _sort_releases is called with the list at hand
CallSortReleases ==
    /\ cop \in {"fetched", "filter"}
    /\ given' = out
    /\ out' = SortReleases(out)
    /\ cop' = "sort"
    /\ CatalogFrame

\* _get_releases_from_pypi / _get_releases have returned a list
CatalogInit ==
    /\ PkgInit /\ RegIdle /\ CmpIdle /\ impl = << >> /\ RlIdle /\ PxIdle /\ ImpIdle
    /\ IdxIdle
    /\ feed \in {"urls", "project"}
    /\ out \in Listings(feed)
    /\ given = << >>
    /\ cop = "fetched"

CatalogNext ==
    \/ CallFilterByPlatform
    \/ CallSortReleases

CatalogSpec == CatalogInit /\ [][CatalogNext]_vars


\* ======================================================= the module search
\* _find_module_in_venv and _load_venv_entry change sys.path and the working
\* directory while they look for and import an installed module.  Between
\* the calls the program itself changes both.

\* longest sys.path
MaxPath == 3

PathEntries == {"", "lib", "site", "extra"}
Dirs == {"home", "inst", "elsewhere"}

\* lists of distinct entries
SysPaths ==
    UNION { {q \in [1..n -> PathEntries] : \A i, j \in 1..n : q[i] = q[j] => i = j} :
            n \in 0..MaxPath }

\* the site-packages directories of the isolated prefix, "lib64" and "lib"
SiteDirs == <<"venv64", "venv">>

\* variant: the clause runs only when the block is left by return
FinallyRuns_OnReturnOnly(outcome) == outcome \in {"found", "module"}

\* try ... finally: the clause runs however the block is left
FinallyRuns(outcome) == outcome \in {"found", "not_found", "module", "exception"}

\* _find_module_in_venv: "original_sys_path = sys.path", "sys.path =
\* [*map(str, site_dirs), *sys.path]", the lookup, and in the finally clause
\* "sys.path = original_sys_path"; the working directory is not touched
FindModuleInVenv(path, dir, outcome) ==
    LET original_sys_path == path
        during == SiteDirs \o path
    IN  [sys_path |-> IF FinallyRuns(outcome) THEN original_sys_path ELSE during,
         cwd |-> dir]

\* _load_venv_entry: an empty module name returns at once; else "origcwd =
\* Path.cwd()", "original_sys_path = list(sys.path)", "" is put in front
\* of sys.path unless it is there (sys.path[0] of an empty list raises
\* IndexError before anything is changed), os.chdir(installation_path) and
\* the import, during which the imported code may add a path entry and change
\* directory itself; the finally clause restores both
LoadVenvEntryCall(path, dir, mod_name, touched, outcome) ==
    IF mod_name = "" \/ path = << >>
    THEN [sys_path |-> path, cwd |-> dir]
    ELSE LET origcwd == dir
             original_sys_path == path
             inserted == IF path[1] # "" THEN <<"">> \o path ELSE path
             during == IF touched THEN Append(inserted, "imported") ELSE inserted
             dirDuring == IF touched THEN "elsewhere" ELSE "inst"
         IN  IF FinallyRuns(outcome)
             THEN [sys_path |-> original_sys_path, cwd |-> origcwd]
             ELSE [sys_path |-> during, cwd |-> dirDuring]

ImportFrame ==
    UNCHANGED <<pkgVars, regVars, cmpVars, impl, rlVars, pxVars, catVars, idxVars>>

\* _find_module_in_venv is called: a file of the distribution is found, none
\* is (ImportError after the block), or the lookup raises
CallFindModuleInVenv ==
    /\ \E outcome \in {"found", "not_found", "exception"} :
         LET after == FindModuleInVenv(sys_path, cwd, outcome)
         IN  /\ pcall' = [fn |-> "_find_module_in_venv", outcome |-> outcome,
                          sys_path |-> sys_path, cwd |-> cwd]
             /\ sys_path' = after.sys_path
             /\ cwd' = after.cwd
    /\ ImportFrame

\* _load_venv_entry is called: the import gives the module or raises
CallLoadVenvEntry ==
    /\ \E mod_name \in {"", "pkgX"}, touched \in BOOLEAN,
          outcome \in {"module", "exception"} :
         LET after == LoadVenvEntryCall(sys_path, cwd, mod_name, touched, outcome)
         IN  /\ pcall' = [fn |-> "_load_venv_entry",
                          outcome |-> IF mod_name = "" THEN "empty_name"
                                      ELSE IF sys_path = << >> THEN "IndexError"
                                      ELSE outcome,
                          sys_path |-> sys_path, cwd |-> cwd]
             /\ sys_path' = after.sys_path
             /\ cwd' = after.cwd
    /\ ImportFrame

\* the program changes directory
Chdir ==
    /\ \E d \in Dirs \ {cwd} : cwd' = d
    /\ pcall' = NoCall
    /\ UNCHANGED sys_path
    /\ ImportFrame

\* the program changes sys.path
PathChange ==
    /\ \E q \in SysPaths \ {sys_path} : sys_path' = q
    /\ pcall' = NoCall
    /\ UNCHANGED cwd
    /\ ImportFrame

ImportInit ==
    /\ PkgInit /\ RegIdle /\ CmpIdle /\ impl = << >> /\ RlIdle /\ PxIdle /\ CatIdle
    /\ IdxIdle
    /\ sys_path \in SysPaths
    /\ cwd \in Dirs
    /\ pcall = NoCall

ImportNext ==
    \/ CallFindModuleInVenv
    \/ CallLoadVenvEntry
    \/ Chdir
    \/ PathChange

ImportSpec == ImportInit /\ [][ImportNext]_vars


\* ====================================================== the index requests
\* _get_project_from_pypi and _get_releases_from_pypi ask the index with
\* requests.get and turn each reply into a value or an exception.  A reply is
\* a status code and a body.

Statuses == {200, 203, 301, 400, 403, 404, 408, 429, 500, 502, 503, 504}
\* a body is JSON of the document asked for, JSON of something else, or not
\* JSON at all
Bodies == {"document", "other_json", "not_json"}
Replies == [status : Statuses, body : Bodies]
PkgNames == {"pkgX", "nopkg"}

Got(fn, pkg, ver, replies, kind, exc, message) ==
    [fn |-> fn, pkg_name |-> pkg, req_ver |-> ver, replies |-> replies,
     gets |-> Len(replies), kind |-> kind, exc |-> exc, message |-> message]

\* response.json() and what the caller takes from it: the document, else
\* KeyError / a validation error for other JSON, else JSONDecodeError
Parse(fn, pkg, ver, replies, body) ==
    CASE body = "document" -> Got(fn, pkg, ver, replies, "value", "", "")
      [] body = "other_json" -> Got(fn, pkg, ver, replies, "raised", "KeyError", "")
      [] OTHER -> Got(fn, pkg, ver, replies, "raised", "JSONDecodeError", "")

\* _get_project_from_pypi: one GET of index/pkg/json
GetProjectFromPypi(pkg, r) ==
    LET fn == "_get_project_from_pypi"
    IN  IF r.status = 404
        THEN Got(fn, pkg, "", <<r>>, "returned", "ImportError", "pebkac_unsupported")
        ELSE IF r.status # 200
        THEN Got(fn, pkg, "", <<r>>, "returned", "RuntimeWarning", "web_error")
        ELSE Parse(fn, pkg, "", <<r>>, r.body)

\* _get_releases_from_pypi: GET of index/pkg, then GET of
\* index/pkg/version/json, of which only the status 404 is looked at
GetReleases(pkg, ver, r1, r2) ==
    LET fn == "_get_releases_from_pypi"
    IN  IF r1.status = 404
        THEN Got(fn, pkg, ver, <<r1>>, "returned", "ImportError", "pebkac_unsupported")
        ELSE IF r1.status # 200
        THEN Got(fn, pkg, ver, <<r1>>, "returned", "RuntimeWarning", "web_error")
        ELSE IF r2.status = 404
        THEN Got(fn, pkg, ver, <<r1, r2>>, "returned", "RuntimeWarning",
                 "bad_version_given")
        ELSE Parse(fn, pkg, ver, <<r1, r2>>, r2.body)

IndexFrame ==
    UNCHANGED <<pkgVars, regVars, cmpVars, impl, rlVars, pxVars, catVars, impVars>>

CallGetProjectFromPypi ==
    /\ \E pkg \in PkgNames, r \in Replies : fetch' = GetProjectFromPypi(pkg, r)
    /\ IndexFrame

CallGetReleasesFromPypi ==
    /\ \E pkg \in PkgNames, ver \in Versions, r1 \in Replies, r2 \in Replies :
          fetch' = GetReleases(pkg, ver, r1, r2)
    /\ IndexFrame

IndexInit ==
    /\ PkgInit /\ RegIdle /\ CmpIdle /\ impl = << >> /\ RlIdle /\ PxIdle /\ CatIdle
    /\ ImpIdle
    /\ fetch = NoFetch

IndexNext ==
    \/ CallGetProjectFromPypi
    \/ CallGetReleasesFromPypi

IndexSpec == IndexInit /\ [][IndexNext]_vars


\* ------------------------------------------------------------------ claims
InLog(e) == \E i \in 1..Len(log) : log[i] = e
LastEvent == IF log = << >> THEN "" ELSE log[Len(log)]
AllCases == {<<a, b, c, d>> : a \in {0, 1}, b \in {0, 1}, c \in {0, 1}, d \in {0, 1}}
Requested(c) == c[1] = 1 /\ c[2] = 1 /\ c[4] = 1
\* digests of the releases the index lists for a version, as integers
PublishedDigests(v) == {IntHex(Catalog[v][k].digest) : k \in 1..Len(Catalog[v])}

\* C1 (as claimed): every one of the 16 cases matches exactly one row, the
\* request carries out the documented action of that row - a public import for
\* rows 1, 3 and 7, the registry lookup of auto-install for row 2, a returned
\* suggestion for rows 4 to 6, a returned ImportError for row 8 - and no
\* request ends in the no-match failure.
C1_DocumentedAction ==
    /\ \A c \in AllCases : Cardinality(MatchingRows(c)) = 1
    /\ pc = "done" =>
         /\ req.row \in 1..8
         /\ req.row \in {1, 3, 7} => InLog("import_public")
         /\ req.row = 2 => InLog("lookup")
         /\ req.row \in {4, 5, 6} =>
              result.exc \in {"RuntimeWarning", "ImportError", "BeartypeCallHintViolation"}
         /\ req.row = 8 => result.exc = "ImportError"

\* C2 (as claimed): in case (1,1,1,1) the public import and the version
\* check are followed by the auto-install procedure (at least its registry
\* lookup), whether or not the public import succeeded.
C2_EscalatesAnyway ==
    (pc = "done" /\ req.row = 1 /\ InLog("ensure_version")) => InLog("lookup")

\* C2 (amended): in case (1,1,1,1) _auto_install is handed the publicly
\* imported module and returns it unchanged; the request does no registry
\* lookup, catalog fetch, download, installation or registry commit.
C2_PublicModuleReturnedUnchanged ==
    req.row = 1 =>
        /\ ~InLog("lookup") /\ ~InLog("fetch_releases") /\ ~InLog("download")
        /\ ~InLog("pip") /\ ~InLog("commit")
        /\ <<registry, files, venv>> = req.before
        /\ (pc = "done" /\ result.kind = "module") =>
              (result.from = "public" /\ log = <<"import_public", "ensure_version">>)

C2_Witness ==
    /\ pc = "done" /\ req.row = 1
    /\ result.kind = "module" /\ result.from = "public"
    /\ log = <<"import_public", "ensure_version">>

\* C3: an artifact download, a package-manager run or a registry write
\* happens only in a request with version given, hash given and auto-install
\* requested; in every other case the disk and the registry stay as they were.
C3_SideEffectsOnlyWhenRequested ==
    ~Requested(req.case) =>
        /\ ~InLog("download") /\ ~InLog("pip") /\ ~InLog("commit")
        /\ pc # "idle" => <<registry, files, venv>> = req.before

C3_Witness ==
    /\ pc = "done" /\ Requested(req.case)
    /\ InLog("download") /\ InLog("pip") /\ InLog("commit")
    /\ registry # req.before[1]

\* C4: whenever a url is handed to the download step, the published digest
\* of its release, read as a hexadecimal integer, is the hash the loop is at,
\* and that hash is the integer value of one of the strings the user gave.
C4_OnlyAcceptableUrlsDownloaded ==
    pc = "download" =>
        /\ url # 0
        /\ \E k \in 1..Len(Catalog[req.version]) : Catalog[req.version][k].id = url
        /\ IntHex(ReleaseById(url).digest) = H
        /\ \E g \in req.given : IntHex(StripBlanks(g)) = IntHex(ReleaseById(url).digest)

\* the url is selected although no given string equals the published text
C4_Witness ==
    /\ pc = "download"
    /\ \A g \in req.given : g # ReleaseById(url).digest
    /\ Cardinality(req.given) = 2

\* C5: _download_artifact checks the digest after writing, fetches a second
\* time exactly when the first content mismatches, and fails when the second
\* mismatches too; a matching file already on disk is not fetched again;
\* every artifact the installer is given has the selected hash as its digest.
C5_VerifiedBeforeInstall ==
    /\ dl.gets \in 0..2
    /\ dl.pre => dl.gets = 0
    /\ dl.gets = 2 => DigestOf(dl.first) # dl.hash_value
    /\ dl.gets = 1 => DigestOf(dl.first) = dl.hash_value
    /\ pc \in {"install", "import", "save"} =>
          (files[ReleaseById(url).filename] # Absent
           /\ DigestOf(files[ReleaseById(url).filename]) = H)
    /\ (LastEvent = "download" /\ pc = "done") =>
          (result.kind = "raised" /\ dl.gets = 2 /\ DigestOf(dl.second) # H)
    /\ \A i \in 1..Len(log) :
          (log[i] = "pip" /\ i > 1) => log[i - 1] = "download"

C5_Witness ==
    /\ pc = "install" /\ dl.gets = 2
    /\ dl.first = Corrupt /\ DigestOf(dl.second) = H

C5_WitnessFailed ==
    /\ pc = "done" /\ LastEvent = "download" /\ dl.gets = 2
    /\ result.exc = "ImportError"


SuccessTail == <<"select", "download", "pip", "installed", "imported", "commit">>
EndsWith(l, t) ==
    Len(l) >= Len(t) /\ SubSeq(l, Len(l) - Len(t) + 1, Len(l)) = t
Preceded(e, by) ==
    \A i \in 1..Len(log) : log[i] = e => (i > 1 /\ log[i - 1] = by)

\* C6: in an auto-install the steps of a candidate come in the order
\* download-and-verify, package manager, import, registry commit, return;
\* the registry changes only by the commit that ends a candidate whose
\* verification, installation and import all succeeded, and the committed
\* entry is that candidate's.
C6_CommitOnlyAfterVerifyInstallImport ==
    /\ Preceded("pip", "download")
    /\ Preceded("installed", "pip")
    /\ Preceded("imported", "installed")
    /\ Preceded("commit", "imported")
    /\ Preceded("download", "select")
    /\ InLog("commit") =>
          /\ EndsWith(log, SuccessTail)
          /\ pc \in {"returned", "done"} /\ mod = "module"
          /\ DigestOf(files[ReleaseById(url).filename]) = H
          /\ CheckDbForInstallation(registry, PkgName, req.version) =
                [present |-> TRUE, artifact_path |-> ReleaseById(url).filename,
                 installation_path |-> req.version, pure_python_package |-> FALSE]
    /\ result.from = "installed" => InLog("commit")
    /\ (pc # "idle" /\ ~InLog("commit")) => registry = req.before[1]

\* a second candidate is committed after the first one failed
C6_Witness ==
    /\ pc = "done" /\ result.kind = "module" /\ result.from = "installed"
    /\ InLog("failed")
    /\ EndsWith(log, SuccessTail)
    /\ registry # req.before[1]

\* C7: an auto-install for a (name, version) that an earlier auto-install
\* committed finds the entry, fetches no catalog, downloads nothing, runs no
\* package manager and loads from the recorded installation path.
C7_CachedRequestSkipsInstall ==
    (req.hadDist /\ InLog("lookup")) =>
        /\ entry.present /\ entry.installation_path = req.version
        /\ ~InLog("fetch_releases") /\ ~InLog("select") /\ ~InLog("download")
        /\ ~InLog("pip") /\ ~InLog("commit")
        /\ <<registry, files, venv>> = req.before
        /\ (pc = "done" /\ result.kind = "module") => result.from = "cached"

C7_Witness ==
    /\ pc = "done" /\ req.hadDist
    /\ result.kind = "module" /\ result.from = "cached"
    /\ log = <<"lookup", "cached_load">>

NoHashMatches ==
    /\ req.version # "None"
    /\ req.hashes # {}
    /\ req.hashes \cap PublishedDigests(req.version) = {}

C9_FailureOnlyAfterAllHashesTried ==
    (pc = "done" /\ InLog("select") /\ result.kind # "module") => remaining = {}

\* C10 (as claimed): when a candidate failed in install, locate or import
\* and the loop is about to take the next hash, the install directory of
\* (name, version) is gone if cleanup is enabled and was not removed if
\* cleanup is disabled.
C10_InstallDirRemovedBeforeNextCandidate ==
    (pc = "loop" /\ LastEvent \in {"failed", "rmtree"}) =>
        /\ req.cleanup => ~venv[req.version].site
        /\ ~req.cleanup => LastEvent = "failed"


\* what a lookup by (name, version) gives, without the purity flag
Looked(reg, v) ==
    LET e == CheckDbForInstallation(reg, PkgName, v)
    IN  [present |-> e.present, artifact_path |-> e.artifact_path,
         installation_path |-> e.installation_path]

\* C11: after any sequence of _save_package_info, del_entry and cleanup
\* calls, _check_db_for_installation(name, version) gives the artifact path
\* and installation path of the pair last inserted for that version if it was
\* not deleted since, and not-found for a version never inserted or deleted
\* since.
C11_LookupGivesLastInsertedPair ==
    \A v \in Versions : Looked(registry, v) = saved[v]

\* an entry inserted after two earlier entries were deleted
C11_Witness ==
    /\ op = "insert"
    /\ registry.seqD = 3
    /\ Cardinality(registry.dists) = 1
    /\ \E v \in Versions : Looked(registry, v).present

\* C12: in every registry state reached by inserts, del_entry and cleanup,
\* every artifact row refers to an existing distribution row and every hash
\* row to an existing artifact row.
C12_NoOrphanRows ==
    /\ \A a \in registry.arts : \E d \in registry.dists : d.id = a.distribution_id
    /\ \A h \in registry.hashes : \E a \in registry.arts : a.id = h.artifact_id

\* a distribution was deleted while another one, with its hash, stays
C12_Witness ==
    /\ op = "del"
    /\ registry.seqD > Cardinality(registry.dists)
    /\ registry.dists # {}
    /\ registry.hashes # {}

\* both recorded paths of a registry entry exist on disk
RowOnDisk(r) ==
    /\ PathExists(r.artifact_path, files, venv, FALSE)
    /\ PathExists(r.installation_path, files, venv, FALSE)

\* C13 (as claimed): a cleanup call deletes every entry whose artifact path
\* or installation path is missing on disk and keeps every entry whose two
\* paths exist.
C13_CleanupPrunesMissingPaths ==
    [][op' = "cleanup" =>
         CleanupRows(registry') = {r \in CleanupRows(registry) : RowOnDisk(r)}]_vars


\* a callable of unit u has no attribute of its name in unit w
MissingCallable(u, w) ==
    \E k \in 1..Len(u) : u[k].obj.callable /\ ~HasAttr(w, u[k].name)

\* unit u without its attributes that are not callable
CallablesOf(u) ==
    LET F[i \in 0..Len(u)] ==
           IF i = 0 THEN << >>
           ELSE IF u[i].obj.callable THEN Append(F[i - 1], u[i]) ELSE F[i - 1]
    IN  F[Len(u)]

\* C17 (as claimed): when a callable of the old unit has no attribute of the
\* same name in the new unit, _modules_are_compatible returns False; and the
\* attributes of the old unit that are not callable do not change the result.
C17_MissingCallableIsIncompatible ==
    verdict # "none" =>
        /\ MissingCallable(pre, post) => verdict = "False"
        /\ verdict = ModulesAreCompatible(CallablesOf(pre), post)

\* the pairs (old slot, new slot) compared for the callables of u that w
\* has as callables
SlotPairs(u, w) ==
    UNION { LET sl == ZipLongest(ExtractedFromIsCompatible(u[k].obj.sig),
                                 ExtractedFromIsCompatible(GetAttr(w, u[k].name).sig))
            IN  {sl[i] : i \in 1..Len(sl)} :
            k \in {j \in 1..Len(u) : /\ u[j].obj.callable
                                     /\ HasAttr(w, u[j].name)
                                     /\ GetAttr(w, u[j].name).callable} }

\* every callable of u has a callable of the same name in w
AllMatched(u, w) ==
    \A k \in 1..Len(u) :
        u[k].obj.callable => (HasAttr(w, u[k].name) /\ GetAttr(w, u[k].name).callable)

\* C18: in every compared slot, Any on the old side accepts whatever the new
\* side is, and Any on the new side is accepted only when the old side is
\* Any; no pair of units with a slot broadened from a type to Any is found
\* compatible, and a pair whose old slots are all Any is found compatible.
C18_AnyNarrowsNeverBroadens ==
    /\ \A sl \in SlotPairs(pre, post) :
          /\ sl[1] = AnyT => Check(sl[1], sl[2]) = "True"
          /\ (sl[2] = AnyT /\ sl[1] # AnyT) => Check(sl[1], sl[2]) = "False"
    /\ verdict = "True" =>
          \A sl \in SlotPairs(pre, post) : sl[2] = AnyT => sl[1] = AnyT
    /\ (verdict # "none" /\ AllMatched(pre, post)
        /\ \A sl \in SlotPairs(pre, post) : sl[1] = AnyT) => verdict = "True"

\* an unannotated parameter narrowed to int, found compatible
C18_Witness ==
    /\ verdict = "True"
    /\ AllMatched(pre, post)
    /\ \E sl \in SlotPairs(pre, post) : sl[1] = AnyT /\ sl[2] = IntT

\* C19 (as claimed): a unit compared with itself is found compatible.
C19_CheckIsReflexive ==
    (verdict # "none" /\ post = pre) => verdict = "True"

\* worker w found new content whose unit lacks a callable of the unit that
\* was live at that moment
RemovedCallableDetected(w) ==
    /\ w.detected # ""
    /\ ~BuildFails(w.detected)
    /\ MissingCallable(w.live, UnitOf(w.detected))

\* C14 (as claimed): once a worker of a reloader that has not been stopped
\* has detected content that lacks a callable of the live unit, the proxy
\* still refers to the old unit and the worker is still in its polling loop.
C14_IncompatibleRebuildRejected ==
    \A i \in 1..Len(reloader.workers) :
        (RemovedCallableDetected(reloader.workers[i]) /\ ~reloader.stopCalled) =>
            /\ impl = reloader.workers[i].live
            /\ Alive(reloader.workers[i])

\* a started reloader that nobody stopped watches content that differs from
\* the live unit and passes the compatibility check against it
PendingCompatibleChange ==
    /\ reloader.workers # << >>
    /\ ~reloader.stopCalled
    /\ ~BuildFails(source)
    /\ UnitOf(source) # impl
    /\ ModulesAreCompatible(impl, UnitOf(source)) = "True"

\* C15 (as claimed): in either scheduling mode, a compatible change of the
\* watched content does not stay pending for ever: the proxy comes to refer
\* to the unit built from it (or the content changes again, or the reloader
\* is stopped).
C15_CompatibleChangeEventuallyLive ==
    PendingCompatibleChange ~> ~PendingCompatibleChange

\* C16: at any instant the proxy refers to one completely built unit, and
\* every read, write or call through the proxy that has been served was
\* served in all its parts by the one unit the proxy referred to when the
\* access read the handle, whatever was assigned to the proxy meanwhile.
C16_ServedByOneUnit ==
    /\ impl \in UnitIds
    /\ attr[impl].f = impl /\ attr[impl].g = impl
    /\ \A t \in Accessors :
          acc[t].at = "served" =>
              /\ acc[t].unit \in 1..impl
              /\ acc[t].part1 = acc[t].unit
              /\ acc[t].part2 = acc[t].unit

\* a call was served while a new unit was assigned to the proxy
C16_Witness ==
    \E t \in Accessors :
        /\ acc[t].at = "served"
        /\ acc[t].op = "call"
        /\ acc[t].unit # impl
        /\ acc[t].part2 = acc[t].unit

\* C20 (as claimed): a package request of Use._use_package that ends without
\* a module gives back the caller's default and raises nothing when a
\* default other than fastfail was supplied, and raises otherwise.
C20_DefaultReplacesEveryFailure ==
    (pc = "done" /\ req.caller = "_use_package" /\ result.kind # "module") =>
        IF req.default # "fastfail" THEN result.kind = "default"
        ELSE result.kind = "raised"

\* a source archive, as the index publishes it
SourceArchive(r) == r.kind \in {"sdist_targz", "sdist_zip"}

\* the ordering key as claimed: non-legacy archive, binary, version
ClaimedKey(r) ==
    <<1 - B2I(r.kind = "sdist_targz"), 1 - B2I(SourceArchive(r)), VersionRank(r.version)>>

\* where x stands in a list of different releases
Position(l, x) == CHOOSE i \in 1..Len(l) : l[i] = x

\* C21 (as claimed): the list _sort_releases returns holds the releases it
\* was given, non-legacy archives before .tar.gz, then binary before source,
\* then higher version before lower; releases with equal keys keep the order
\* they were given in; and no two different releases are each ordered before
\* the other (the ordering is antisymmetric).
C21_SortIsTotalOrderBestFirst ==
    cop = "sort" =>
        /\ Len(out) = Len(given)
        /\ {out[i] : i \in 1..Len(out)} = {given[i] : i \in 1..Len(given)}
        /\ \A i, j \in 1..Len(out) :
              i < j =>
                 /\ ~KeyGreater(ClaimedKey(out[j]), ClaimedKey(out[i]))
                 /\ ClaimedKey(out[i]) = ClaimedKey(out[j]) =>
                       Position(given, out[i]) < Position(given, out[j])
                 /\ ClaimedKey(out[i]) # ClaimedKey(out[j])

\* C22 (as claimed): no yanked release is in a list _filter_by_platform
\* returns, and the release _auto_install selects for download is not yanked.
C22_YankedNeverUsed ==
    /\ cop = "filter" => \A i \in 1..Len(out) : ~out[i].yanked
    /\ url # 0 => ~ReleaseById(url).yanked

\* C23: what _filter_by_platform returns is the strict pass over its
\* argument when that pass finds a release, and then holds no source
\* archive; otherwise it is the pass that allows source archives, whatever
\* that finds.
C23_StrictFirstThenSourceRetry ==
    cop = "filter" =>
        /\ Pass(given, FALSE) # << >> =>
              /\ out = Pass(given, FALSE)
              /\ \A i \in 1..Len(out) : ~SourceArchive(out[i])
        /\ Pass(given, FALSE) = << >> => out = Pass(given, TRUE)
        /\ \A i \in 1..Len(out) :
              SourceArchive(out[i]) =>
                 \A j \in 1..Len(given) :
                    (~given[j].yanked /\ ~SourceArchive(given[j])) =>
                        ~IsPlatformCompatible(given[j], FALSE)

\* the strict pass kept the wheel of a list that also holds a source
\* archive that is not yanked
C23_Witness ==
    /\ cop = "filter"
    /\ out # << >>
    /\ \E j \in 1..Len(given) : SourceArchive(given[j]) /\ ~given[j].yanked
    /\ \A i \in 1..Len(out) : ~SourceArchive(out[i])

\* C24 (as claimed): after a cleanup call every downloaded artifact and every
\* install directory on disk belongs to a registry entry, and both paths of
\* every registry entry exist on disk.
C24_CleanupSyncsBothWays ==
    [][op' = "cleanup" =>
         /\ \A f \in Filenames :
               files'[f] # Absent =>
                  \E r \in CleanupRows(registry') : r.artifact_path = f
         /\ \A v \in Versions :
               venv'[v].root =>
                  \E r \in CleanupRows(registry') : r.installation_path = v
         /\ \A r \in CleanupRows(registry') :
               /\ PathExists(r.artifact_path, files', venv', FALSE)
               /\ PathExists(r.installation_path, files', venv', FALSE)]_vars

C26_StopIsCooperativeAndTerminal ==
    [][reloader.stopCalled =>
          /\ reloader'.stopped
          /\ \A i \in 1..Len(reloader.workers) :
                /\ reloader.workers[i].at = "top" =>
                      reloader'.workers[i].at # "body"
                /\ ~Alive(reloader.workers[i]) =>
                      ~Alive(reloader'.workers[i])]_vars

\* hash of the content worker w has seen last: the content of its previous
\* poll, or the content the unit was loaded from before its first poll
LastSeen(w) ==
    IF w.built THEN Blake2b(w.detected)
    ELSE IF w.last_filehash = NoHash THEN Blake2b(reloader.loaded)
    ELSE w.last_filehash

\* worker i runs the body of its loop in this step
BodyStep(i) ==
    /\ i <= Len(reloader.workers)
    /\ reloader.workers[i].at = "body"
    /\ reloader'.workers[i] # reloader.workers[i]

\* C27 (as claimed): a pass of the loop calls _build_mod only when the hash
\* of the file differs from the hash of the content seen last.
C27_RebuildOnlyOnChangedContent ==
    [][\A i \in 1..MaxWorkers :
          (BodyStep(i) /\ reloader'.workers[i].built) =>
              Blake2b(source) # LastSeen(reloader.workers[i])]_vars

\* C28 (as claimed): every pass of the loop body ends with the sleep.
C28_EveryPassSleeps ==
    [][\A i \in 1..MaxWorkers :
          BodyStep(i) => reloader'.workers[i].slept]_vars

\* C29 (as claimed): after a worker of a reloader that has not been stopped
\* met content that does not compile, the proxy still refers to the old unit
\* and the worker is still in its polling loop.
C29_RebuildFaultKeepsLoopAlive ==
    \A i \in 1..Len(reloader.workers) :
        ( /\ reloader.workers[i].detected # ""
          /\ BuildFails(reloader.workers[i].detected)
          /\ ~reloader.stopCalled ) =>
            /\ impl = reloader.workers[i].live
            /\ Alive(reloader.workers[i])

\* signature s2 declares the two parameters of s1 in the other order, and
\* their annotations differ
Exchanged(s1, s2) ==
    /\ Len(s1.params) = 2 /\ Len(s2.params) = 2
    /\ s2.params[1].name = s1.params[2].name
    /\ s2.params[2].name = s1.params[1].name
    /\ s2.params[1].annotation = s1.params[2].annotation
    /\ s2.params[2].annotation = s1.params[1].annotation
    /\ s1.params[1].annotation # s1.params[2].annotation

\* C30 (as claimed): when the new unit declares the two positional parameters
\* of a callable of the old unit in exchanged order, with different
\* annotations, the units are found incompatible.
C30_PositionalComparedByPosition ==
    ( /\ verdict # "none"
      /\ \E k \in 1..Len(pre) :
            /\ pre[k].obj.callable
            /\ HasAttr(post, pre[k].name)
            /\ GetAttr(post, pre[k].name).callable
            /\ Exchanged(pre[k].obj.sig, GetAttr(post, pre[k].name).sig) )
    => verdict = "False"

\* C31 (as claimed): every call of the compatibility check gives a boolean
\* verdict, never an exception.
C31_VerdictIsBoolean ==
    verdict \in {"none", "True", "False"}

\* number of events e in l
Count(l, e) == Cardinality({i \in 1..Len(l) : l[i] = e})

\* C32 (as claimed): an install step entered while the site directory of
\* (name, version) holds the files installed for the candidate before, whose
\* import failed, does not run the package manager.
C32_InstalledTreeSkipsPip ==
    [][(/\ pc = "install"
        /\ venv[req.version].site
        /\ EndsWith(log, <<"installed", "failed", "select", "download">>))
         => Count(log', "pip") = Count(log, "pip")]_vars

\* C33 (as claimed): a run of the package manager that does not end in an
\* installed tree is recorded as InstallationError and followed by the
\* failure of the candidate, never by its import or commit.
C33_PipFailureIsInstallationError ==
    \A i \in 1..Len(log) :
        (log[i] = "pip" /\ i < Len(log)) =>
            /\ log[i + 1] \in {"installed", "failed", "InstallationError"}
            /\ (log[i + 1] = "InstallationError" /\ i + 1 < Len(log))
                  => log[i + 2] = "failed"

\* C34: after a call of _find_module_in_venv or _load_venv_entry, however it
\* ended, sys.path and the working directory are what they were on entry.
C34_SearchPathAndCwdRestored ==
    pcall.fn # "" => (sys_path = pcall.sys_path /\ cwd = pcall.cwd)

\* an import that raised after "" was put in front of sys.path and the
\* directory was changed
C34_Witness ==
    /\ pcall.fn = "_load_venv_entry" /\ pcall.outcome = "exception"
    /\ pcall.sys_path # << >> /\ pcall.sys_path[1] # ""
    /\ pcall.cwd = "home"
    /\ sys_path = pcall.sys_path /\ cwd = "home"

\* ---- purity of an artifact
\* member names of each published archive, split at the dots
ArchiveNames(fn) ==
    CASE fn = "pkgX-2.0-py3.whl" ->
            {<<"pkgX/__init__", "py">>, <<"pkgX-2", "0", "dist-info/METADATA">>}
      [] OTHER ->
            {<<"pkgX/__init__", "py">>,
             <<"pkgX/_core", "cpython-311-x86_64-linux-gnu", "so">>,
             <<"pkgX-1", "0", "dist-info/METADATA">>}

\* the artifact file name, split at the dots
DottedPath(fn) ==
    CASE fn = "pkgX-1.0-cp-a.whl" -> <<"pkgX-1", "0-cp-a", "whl">>
      [] fn = "pkgX-1.0-cp-b.whl" -> <<"pkgX-1", "0-cp-b", "whl">>
      [] fn = "pkgX-2.0-py3.whl" -> <<"pkgX-2", "0-py3", "whl">>
      [] OTHER -> <<fn>>

\* importlib.machinery.EXTENSION_SUFFIXES, each without its leading dot and
\* split at the dots
ExtensionSuffixes ==
    {<<"cpython-311-x86_64-linux-gnu", "so">>, <<"abi3", "so">>, <<"so">>}

\* n.endswith(s), s beginning with a dot
EndsWithSuffix(n, s) ==
    Len(n) > Len(s) /\ SubSeq(n, Len(n) - Len(s) + 1, Len(n)) = s

\* _is_pure_python_package: False for the first member name that ends in an
\* extension suffix, else '".tar" not in str(artifact_path)'
IsPurePythonPackage(fn) ==
    IF \E n \in ArchiveNames(fn), s \in ExtensionSuffixes : EndsWithSuffix(n, s)
    THEN FALSE
    ELSE ~(\E k \in 2..Len(DottedPath(fn)) : DottedPath(fn)[k] = "tar")

\* C35 (as claimed): the purity flag of every committed distribution row is
\* the result of the purity check on the artifact of that row, and so is the
\* flag of the entry a cached request loads from.
C35_PurityFlagIsPurityCheck ==
    /\ \A d \in registry.dists, a \in registry.arts :
          a.distribution_id = d.id =>
             d.pure_python_package = IsPurePythonPackage(a.artifact_path)
    /\ (pc = "cached" /\ entry.present) =>
          entry.pure_python_package = IsPurePythonPackage(entry.artifact_path)

\* C36 (as claimed): in every committed registry state every distribution
\* row has an artifact row and every artifact row has a hash row.
C36_CommitIsOneUnit ==
    /\ \A d \in registry.dists : \E a \in registry.arts : a.distribution_id = d.id
    /\ \A a \in registry.arts : \E h \in registry.hashes : h.artifact_id = a.id

\* the reply to the last request made
LastReply == fetch.replies[Len(fetch.replies)]

\* C37 (as claimed): 404 on the package request gives "unknown package", 404
\* on the version request "unknown version", any other status that is not
\* 200, on whichever request, a web error; each is a returned value, and no
\* request is made twice.
C37_StatusMapsToReturnedOutcome ==
    fetch.fn # "" =>
        /\ fetch.gets <= (IF fetch.fn = "_get_releases_from_pypi" THEN 2 ELSE 1)
        /\ (LastReply.status = 404 /\ fetch.gets = 1) =>
              (fetch.kind = "returned" /\ fetch.message = "pebkac_unsupported")
        /\ (LastReply.status = 404 /\ fetch.gets = 2) =>
              (fetch.kind = "returned" /\ fetch.message = "bad_version_given")
        /\ LastReply.status \notin {200, 404} =>
              (fetch.kind = "returned" /\ fetch.message = "web_error")

\* published digest of the release with file name fn
PublishedDigestOf(fn) ==
    LET id == CHOOSE n \in ReleaseIds : ReleaseById(n).filename = fn
    IN  IntHex(ReleaseById(id).digest)

\* C38 (as claimed): a module that auto-install returns, freshly installed
\* or loaded through a registry entry, comes from an artifact whose digest is
\* one of the hashes of the request.
C38_ReturnedModuleMatchesRequestHashes ==
    (pc = "done" /\ result.kind = "module" /\ result.from \in {"installed", "cached"})
        => PublishedDigestOf(entry.artifact_path) \in req.hashes

\* C39: the registry never holds two distribution rows of one (name,
\* version), whatever commits, del_entry calls and reconciliations came
\* before.
C39_OneRowPerNameVersion ==
    \A d1 \in registry.dists, d2 \in registry.dists :
        (d1.name = d2.name /\ d1.version = d2.version) => d1.id = d2.id

\* _save_package_info was called for a (name, version) that has a row and
\* inserted nothing, after an earlier row of the registry had been deleted
C39_Witness ==
    /\ op = "skip"
    /\ registry.dists # {}
    /\ registry.seqD > Cardinality(registry.dists)
    /\ C39_OneRowPerNameVersion

Threads == Accessors \cup {"reloader"}

\* thread t is at the entry of "with self.__condition" of the proxy
WaitsForProxyLock(t) ==
    IF t = "reloader" THEN worker = "wait" ELSE acc[t].at = "wait"

\* a set of threads each of which waits for the proxy lock while a thread of
\* the set owns it
Deadlocked(S) ==
    /\ S # {}
    /\ \A t \in S :
          /\ WaitsForProxyLock(t)
          /\ ~CanAcquire(lock, t)
          /\ lock.owner \in S

\* C40: no set of threads is deadlocked; the reloader's lock is taken by the
\* reloading thread only, which takes the proxy lock inside it and never the
\* other way round; a thread that holds the proxy lock and asks for it again
\* is not blocked.
C40_NoDeadlock ==
    /\ \A S \in SUBSET Threads : ~Deadlocked(S)
    /\ rcond.owner \in {"", "reloader"}
    /\ lock.owner = "reloader" => rcond.owner = "reloader"
    /\ \A t \in Accessors : (acc[t].at = "wait" /\ lock.owner = t) => ENABLED Acquire(t)
    /\ lock.count <= 2

\* the code of a call has taken the proxy lock a second time while the
\* reloading thread, inside its own lock, waits for it
C40_Witness ==
    /\ \E t \in Accessors : acc[t].at = "nested" /\ lock = [owner |-> t, count |-> 2]
    /\ worker = "wait"
    /\ rcond.owner = "reloader"

====
